---- MODULE Spec2Model ----
(***************************************************************************)
(* A model of the gateway subsystem of goroutine-3000: the token bucket    *)
(* (pkg/ratelimit), the multi-key limiter built on it, and the gateway's   *)
(* routes, backends, health checker and request pipeline (pkg/gateway,     *)
(* pkg/middleware), and of the channel patterns (pkg/patterns: pipeline,   *)
(* worker pool, fan-in).  Goroutines are processes; a step is a run of     *)
(* statements that other goroutines cannot observe or disturb part-way;    *)
(* time.Now() reads the variable now.                                      *)
(***************************************************************************)
EXTENDS Integers, Sequences, FiniteSets, TLC

\* ------------------------------------------------------------------ bounds
\* Configuration of the modelled instance: NewTokenBucket / NewLimiter arguments.
Capacity == 2
RefillRate == 1
Interval == 2
\* The clock runs over 0..MaxTime.
MaxTime == 4
\* Goroutines calling one TokenBucket directly.
NumCallers == 2
\* Allow calls tallied on a fresh bucket before any time passes.
MaxCalls == 4
\* Largest n handed to AllowN (the smallest is -1: n is a signed int64).
MaxN == 3
\* Goroutines and keys of the Limiter instance.
NumGoroutines == 2
NumKeys == 2
\* Limiter calls (Allow, AllowN, Reset, ResetAll) made in one run.
MaxOps == 3
\* The Limiter's clock runs over 0..MaxLimiterTime.
MaxLimiterTime == 2
\* cleanupInterval, 5 * time.Minute: two ticks of the clock, whose unit is
\* 2.5 minutes.
CleanupInterval == 2

\* Backends of the gateway's one configured route, and concurrent clients.
NumBackends == 3
NumClients == 2

\* Clients sending requests while the health checker runs.
NumServed == 1

\* The pipeline's input: lists of up to MaxInput ints of magnitude up to
\* MaxValue; Go's int is modelled with IntBits bits.
MaxInput == 3
MaxValue == 3
IntBits == 4

\* The worker pool's workers and jobs.
NumWorkers == 2
NumJobs == 3

\* fanIn's input channels, and the values sent on each.
NumChans == 3
PerChan == 2

\* Turns of the backend list over which NextBackend's selections are recorded.
MaxRounds == 2

\* Goroutines calling AddRoute, and the longest target list they pass.
NumAdmins == 1
MaxTargets == 2

NoProc == 0
NoBucket == 0
NoKey == 0
NoBackend == 0

Callers == 1..NumCallers
Goroutines == 1..NumGoroutines
Keys == 1..NumKeys
NValues == (-1)..MaxN
\* Bucket identities: every key and every goroutine can hold one.
BucketIds == 1..(NumKeys + NumGoroutines)
Clients == 1..NumClients
Backends == 1..NumBackends
Admins == 1..NumAdmins

VARIABLES
    now,        \* the wall clock read by time.Now()
    heap,       \* the TokenBucket objects, by identity
    g,          \* per goroutine: program counter and locals
    fresh,      \* ghost: no time has passed and only Allow() has been called
    allowed,    \* ghost: Allow() calls that returned true while fresh
    denied,     \* ghost: Allow() calls that returned false while fresh
    buckets,    \* Limiter.buckets: key -> bucket identity, NoBucket when absent
    lmu,        \* Limiter.mu (sync.RWMutex): the writer and the set of readers
    lastCleanup,\* Limiter.lastCleanup
    ops,        \* ghost: the Limiter calls made so far
    admits,     \* ghost: per key, Allow() admissions of the calls begun in the
                \* current clock instant and since the key's last Reset
    alive,      \* Backend.Alive of each backend of the route
    current,    \* Route.current, the round-robin cursor (an index from 0)
    rmu,        \* Route.mu: the goroutine holding it
    rq,         \* per client: the request being handled and its response
    lastSel,    \* ghost: the backend NextBackend returned last, since liveness
                \* last changed
    hc,         \* the health-check goroutine: where it is
    tickReady,  \* a tick is waiting on ticker.C
    cancelled,  \* g.ctx is cancelled (Stop was called)
    probe,      \* per backend: the probe goroutine of the round in progress
    routes,     \* Gateway.routes: path -> route, NoRoute when absent
    gmu,        \* Gateway.mu (sync.RWMutex): the writer and the set of readers
    adm,        \* per AddRoute caller: program counter and locals
    stats,      \* what the last Gateway.Stats() call returned
    seen,       \* ghost: the keys Limiter calls were made for (keys); whether a
                \* Reset or ResetAll was made (reset); the backends that the
                \* direct NextBackend calls returned, in order, since every
                \* backend was last found alive, over at most MaxRounds turns
                \* of the list (picks); the tokens granted by the direct calls
                \* on a TokenBucket (granted) while none of them passed a
                \* negative n (negative)
    pl,         \* the channel pipeline: stages, channels, collected output
    wp,         \* the worker pool: channels, workers, collected results
    fi          \* fanIn: input channels, forwarders, the merged channel

tally == <<fresh, allowed, denied>>
lvars == <<buckets, lmu, lastCleanup, ops>>
rtvars == <<routes, gmu, adm>>
gwvars == <<alive, current, rmu, rq, lastSel, hc, tickReady, cancelled, probe,
            routes, gmu, adm, stats>>
patvars == <<pl, wp, fi>>
vars == <<now, heap, g, fresh, allowed, denied, buckets, lmu, lastCleanup, ops, admits,
          alive, current, rmu, rq, lastSel, hc, tickReady, cancelled, probe,
          routes, gmu, adm, stats, seen, pl, wp, fi>>

\* ------------------------------------------------------------ TokenBucket

Min(a, b) == IF a < b THEN a ELSE b

\* NewTokenBucket: tokens = capacity, lastRefill = time.Now(), mutex unlocked.
NewTokenBucket(capacity, refillRate, interval, t) ==
    [capacity |-> capacity, tokens |-> capacity, refillRate |-> refillRate,
     interval |-> interval, lastRefill |-> t, mu |-> NoProc]

\* A bucket identity holding no object.
FreeSlot ==
    [capacity |-> 0, tokens |-> 0, refillRate |-> 0, interval |-> 0,
     lastRefill |-> 0, mu |-> NoProc]

\* sync.Mutex.Lock() returns only when no goroutine holds the mutex.
MutexFreeBroken(m) == TRUE
MutexFree(m) == m = NoProc

\* refill(): whole elapsed periods add refillRate each, clamped to capacity;
\* lastRefill advances by periods * interval, not to now.
RefillToNow(tb, t) ==
    LET elapsed == t - tb.lastRefill
        sum == tb.tokens + (elapsed \div tb.interval) * tb.refillRate
    IN  IF elapsed < tb.interval THEN tb
        ELSE [tb EXCEPT !.tokens = IF sum > tb.capacity THEN tb.capacity ELSE sum,
                        !.lastRefill = t]
RefillNoClamp(tb, t) ==
    LET elapsed == t - tb.lastRefill
        periods == elapsed \div tb.interval
    IN  IF elapsed < tb.interval THEN tb
        ELSE [tb EXCEPT !.tokens = tb.tokens + periods * tb.refillRate,
                        !.lastRefill = tb.lastRefill + periods * tb.interval]
RefillNoAdvance(tb, t) ==
    LET elapsed == t - tb.lastRefill
        sum == tb.tokens + (elapsed \div tb.interval) * tb.refillRate
    IN  IF elapsed < tb.interval THEN tb
        ELSE [tb EXCEPT !.tokens = IF sum > tb.capacity THEN tb.capacity ELSE sum]
Refill(tb, t) ==
    LET elapsed == t - tb.lastRefill
        periods == elapsed \div tb.interval
        tokensToAdd == periods * tb.refillRate
        sum == tb.tokens + tokensToAdd
    IN  IF elapsed < tb.interval THEN tb
        ELSE [tb EXCEPT !.tokens = IF sum > tb.capacity THEN tb.capacity ELSE sum,
                        !.lastRefill = tb.lastRefill + periods * tb.interval]

\* The admission tests of Allow and AllowN.
AllowTestLoose(tokens) == tokens >= 0
AllowTest(tokens) == tokens > 0
AllowNTestLoose(tokens, n) == tokens + 1 >= n
AllowNTest(tokens, n) == tokens >= n

\* What a call takes from the bucket once admitted.
TakeTwice(op, n) == IF op = "Allow" THEN 2 ELSE n + n
TakeOf(op, n) == IF op = "Allow" THEN 1 ELSE n

\* A goroutine's locals: the call (op, key, n), the bucket it operates on (b),
\* the bucket it holds a pointer to (mine), cleanup's loop state (todo, ck,
\* cnow), who called the bucket method (ctx), and ghosts: the token count right
\* after refill (after), and whether time passed or the key was reset since the
\* call began (stale).
Idle == [pc |-> "idle", op |-> "-", n |-> 0, key |-> NoKey, b |-> NoBucket,
         mine |-> NoBucket, todo |-> {}, ck |-> NoKey, cnow |-> 0,
         ctx |-> "top", after |-> 0, ret |-> 0, stale |-> FALSE]

InFlight(p) == g[p].pc # "idle"

\* The bucket method a goroutine is in: cleanupIfNeeded calls Available().
OpOf(p) == IF g[p].ctx = "cleanup" THEN "Available" ELSE g[p].op

\* Garbage collection: a bucket that neither the map nor any goroutine points
\* to is gone, and its identity is free again.
Collect(h, bks, gs) ==
    [i \in BucketIds |->
        IF \/ \E k \in Keys : bks[k] = i
           \/ \E p \in DOMAIN gs : gs[p].b = i \/ gs[p].mine = i
        THEN h[i] ELSE FreeSlot]

\* A goroutine calls tb.Allow(), tb.AllowN(n) or tb.Available() on the bucket
\* it holds. A negative n is started only on a bucket within its capacity and
\* with no other negative call pending, which keeps the token count bounded.
TBCall(p) ==
    /\ g[p].pc = "idle"
    /\ \E op \in {"Allow", "AllowN", "Available"} :
       \E n \in NValues :
          /\ op # "AllowN" => n = 0
          /\ n < 0 => /\ heap[g[p].mine].tokens <= heap[g[p].mine].capacity
                      /\ \A q \in DOMAIN g : InFlight(q) => g[q].n >= 0
          /\ (fresh /\ op = "Allow") =>
                 allowed + denied + Cardinality({q \in DOMAIN g : InFlight(q)}) < MaxCalls
          /\ g' = [g EXCEPT ![p].pc = "tb_lock", ![p].op = op, ![p].n = n,
                            ![p].b = g[p].mine]
          /\ IF fresh /\ op # "Allow"
                THEN fresh' = FALSE /\ allowed' = 0 /\ denied' = 0
                ELSE UNCHANGED <<fresh, allowed, denied>>
          /\ seen' = IF n < 0 THEN [seen EXCEPT !.negative = TRUE, !.granted = 0]
                               ELSE seen
    /\ UNCHANGED <<now, patvars, heap, lvars, admits, gwvars>>

\* tb.mu.Lock(); tb.refill()
TBLock(p) ==
    /\ g[p].pc = "tb_lock"
    /\ MutexFree(heap[g[p].b].mu)
    /\ LET tb == Refill(heap[g[p].b], now)
       IN  /\ heap' = [heap EXCEPT ![g[p].b] = [tb EXCEPT !.mu = p]]
           /\ g' = [g EXCEPT ![p].pc = "tb_check", ![p].after = tb.tokens]
    /\ UNCHANGED <<now, patvars, tally, lvars, admits, seen, gwvars>>

\* if tb.tokens > 0 / if tb.tokens >= n / return tb.tokens
TBCheck(p) ==
    /\ g[p].pc = "tb_check"
    /\ LET tb == heap[g[p].b]
       IN  CASE OpOf(p) = "Allow" ->
                  IF AllowTest(tb.tokens)
                     THEN g' = [g EXCEPT ![p].pc = "tb_take"]
                     ELSE g' = [g EXCEPT ![p].pc = "tb_unlock", ![p].ret = FALSE]
             [] OpOf(p) = "AllowN" ->
                  IF AllowNTest(tb.tokens, g[p].n)
                     THEN g' = [g EXCEPT ![p].pc = "tb_take"]
                     ELSE g' = [g EXCEPT ![p].pc = "tb_unlock", ![p].ret = FALSE]
             [] OTHER ->
                  g' = [g EXCEPT ![p].pc = "tb_unlock", ![p].ret = tb.tokens]
    /\ UNCHANGED <<now, patvars, heap, tally, lvars, admits, seen, gwvars>>

\* tb.tokens-- / tb.tokens -= n; return true
TBTake(p) ==
    /\ g[p].pc = "tb_take"
    /\ heap' = [heap EXCEPT ![g[p].b].tokens = @ - TakeOf(g[p].op, g[p].n)]
    /\ g' = [g EXCEPT ![p].pc = "tb_unlock", ![p].ret = TRUE]
    /\ admits' = IF g[p].op = "Allow" /\ g[p].key # NoKey /\ ~g[p].stale
                    THEN [admits EXCEPT ![g[p].key] = @ + 1]
                    ELSE admits
    /\ seen' = IF g[p].key = NoKey /\ ~seen.negative
                  THEN [seen EXCEPT !.granted = @ + TakeOf(g[p].op, g[p].n)]
                  ELSE seen
    /\ UNCHANGED <<now, patvars, tally, lvars, gwvars>>

\* The deferred tb.mu.Unlock(), and the return to the caller: to cleanupIfNeeded,
\* or out of Allow / AllowN / Available. A caller of Limiter.Allow drops its
\* bucket pointer; a direct caller keeps its *TokenBucket.
TBUnlock(p) ==
    /\ g[p].pc = "tb_unlock"
    /\ g' = [g EXCEPT ![p] =
                IF g[p].ctx = "cleanup" THEN [g[p] EXCEPT !.pc = "cl_decide"]
                ELSE IF g[p].key = NoKey THEN [Idle EXCEPT !.mine = g[p].mine]
                ELSE Idle]
    /\ heap' = Collect([heap EXCEPT ![g[p].b].mu = IF @ = p THEN NoProc ELSE @],
                       buckets, g')
    /\ IF fresh /\ OpOf(p) = "Allow"
          THEN /\ allowed' = allowed + (IF g[p].ret = TRUE THEN 1 ELSE 0)
               /\ denied' = denied + (IF g[p].ret = TRUE THEN 0 ELSE 1)
          ELSE UNCHANGED <<allowed, denied>>
    /\ UNCHANGED <<now, patvars, fresh, lvars, admits, seen, gwvars>>

\* Time passes, up to the horizon of the run.
Advance(horizon) ==
    /\ now < horizon
    /\ now' = now + 1
    /\ fresh' = FALSE /\ allowed' = 0 /\ denied' = 0
    /\ g' = [p \in DOMAIN g |-> IF InFlight(p) /\ g[p].key # NoKey
                                   THEN [g[p] EXCEPT !.stale = TRUE] ELSE g[p]]
    /\ admits' = [k \in Keys |-> 0]
    /\ UNCHANGED <<heap, lvars, seen, gwvars, patvars>>

Tick == Advance(MaxTime)

\* Gateway.Stats() has not been called.
NoStats == [called |-> FALSE]

\* The pattern demos' part of the state when none of them is running.
PatternsIdle == pl = <<>> /\ wp = <<>> /\ fi = <<>>

\* The gateway part of the state when no gateway is running.
GatewayIdle ==
    /\ alive = [b \in Backends |-> TRUE]
    /\ current = 0
    /\ rmu = NoProc
    /\ rq = <<>>
    /\ lastSel = NoBackend
    /\ hc = "off"
    /\ tickReady = FALSE
    /\ cancelled = FALSE
    /\ probe = [b \in Backends |-> [pc |-> "none", res |-> FALSE]]
    /\ routes = <<>>
    /\ gmu = [w |-> NoProc, r |-> {}]
    /\ adm = <<>>
    /\ stats = NoStats

\* One bucket, tb := NewTokenBucket(...), shared by the calling goroutines.
BucketInit ==
    /\ now = 0
    /\ heap = [i \in BucketIds |->
                 IF i = 1 THEN NewTokenBucket(Capacity, RefillRate, Interval, 0)
                 ELSE FreeSlot]
    /\ g = [p \in Callers |-> [Idle EXCEPT !.mine = 1]]
    /\ fresh = TRUE
    /\ allowed = 0
    /\ denied = 0
    /\ buckets = [k \in Keys |-> NoBucket]
    /\ lmu = [w |-> NoProc, r |-> {}]
    /\ lastCleanup = 0
    /\ ops = 0
    /\ admits = [k \in Keys |-> 0]
    /\ seen = [keys |-> {}, reset |-> FALSE, picks |-> <<>>, granted |-> 0,
               negative |-> FALSE]
    /\ PatternsIdle
    /\ GatewayIdle

BucketNext ==
    \/ \E p \in Callers : TBCall(p)
    \/ \E p \in Callers : TBLock(p)
    \/ \E p \in Callers : TBCheck(p)
    \/ \E p \in Callers : TBTake(p)
    \/ \E p \in Callers : TBUnlock(p)
    \/ Tick

SpecBucket == BucketInit /\ [][BucketNext]_vars

\* ---------------------------------------------------------------- Limiter

\* sync.RWMutex: RLock waits for no writer, Lock for no writer and no reader.
RLockFree(m) == m.w = NoProc
WLockFree(m) == m.w = NoProc /\ m.r = {}

\* l.buckets[key]
LookupFirst(bks, k) == bks[1]
Lookup(bks, k) == bks[k]

\* l.Allow(key) / l.AllowN(key, n) enters getBucket(key): l.mu.RLock()
LCall(p) ==
    /\ g[p].pc = "idle"
    /\ RLockFree(lmu)
    /\ ops < MaxOps
    /\ ops' = ops + 1
    /\ \E op \in {"Allow", "AllowN"} : \E k \in Keys : \E n \in {0, Capacity} :
          /\ (op = "Allow") = (n = 0)
          /\ g' = [g EXCEPT ![p] = [Idle EXCEPT !.pc = "gb_read", !.op = op,
                                                 !.key = k, !.n = n]]
          /\ seen' = [seen EXCEPT !.keys = @ \cup {k}]
    /\ lmu' = [lmu EXCEPT !.r = @ \cup {p}]
    /\ UNCHANGED <<now, patvars, heap, tally, buckets, lastCleanup, admits, gwvars>>

\* bucket, exists := l.buckets[key]; l.mu.RUnlock(); if exists { return bucket }
GBRead(p) ==
    /\ g[p].pc = "gb_read"
    /\ lmu' = [lmu EXCEPT !.r = @ \ {p}]
    /\ LET b == Lookup(buckets, g[p].key)
       IN  g' = [g EXCEPT ![p].pc = IF b # NoBucket THEN "tb_lock" ELSE "gb_lock",
                          ![p].b = b, ![p].mine = b]
    /\ UNCHANGED <<now, patvars, heap, tally, buckets, lastCleanup, ops, admits, seen, gwvars>>

\* getBucket, slow path: l.mu.Lock()
GBLock(p) ==
    /\ g[p].pc = "gb_lock"
    /\ WLockFree(lmu)
    /\ lmu' = [lmu EXCEPT !.w = p]
    /\ g' = [g EXCEPT ![p].pc = "gb_create"]
    /\ UNCHANGED <<now, patvars, heap, tally, buckets, lastCleanup, ops, admits, seen, gwvars>>

\* The double check: the key's bucket if another goroutine has stored one ...
Recheck(b) == b # NoBucket

\* ... and otherwise NewTokenBucket, l.buckets[key] = bucket, on to
\* cleanupIfNeeded.
GBCreate(p) ==
    /\ g[p].pc = "gb_create"
    /\ LET b == Lookup(buckets, g[p].key)
           id == CHOOSE i \in BucketIds : heap[i] = FreeSlot
       IN  IF Recheck(b)
              THEN /\ g' = [g EXCEPT ![p].pc = "tb_lock", ![p].b = b, ![p].mine = b]
                   /\ lmu' = [lmu EXCEPT !.w = NoProc]
                   /\ UNCHANGED <<heap, buckets>>
              ELSE /\ heap' = [heap EXCEPT ![id] =
                                  NewTokenBucket(Capacity, RefillRate, Interval, now)]
                   /\ buckets' = [buckets EXCEPT ![g[p].key] = id]
                   /\ g' = [g EXCEPT ![p].pc = "cl_start", ![p].b = id, ![p].mine = id]
                   /\ UNCHANGED lmu
    /\ UNCHANGED <<now, patvars, tally, lastCleanup, ops, admits, seen, gwvars>>

\* cleanupIfNeeded: now := time.Now(); return unless cleanupInterval has passed.
CleanupDueAlways(t, last) == TRUE
CleanupDue(t, last) == ~(t - last < CleanupInterval)

CleanupStart(p) ==
    /\ g[p].pc = "cl_start"
    /\ IF CleanupDue(now, lastCleanup)
          THEN /\ g' = [g EXCEPT ![p].pc = "cl_scan", ![p].cnow = now,
                                 ![p].todo = {k \in Keys : buckets[k] # NoBucket}]
               /\ UNCHANGED lmu
          ELSE /\ g' = [g EXCEPT ![p].pc = "tb_lock"]
               /\ lmu' = [lmu EXCEPT !.w = NoProc]
    /\ UNCHANGED <<now, patvars, heap, tally, buckets, lastCleanup, ops, admits, seen, gwvars>>

\* for key, bucket := range l.buckets (in any order): call bucket.Available();
\* after the loop l.lastCleanup = now, and getBucket's deferred l.mu.Unlock().
CleanupScan(p) ==
    /\ g[p].pc = "cl_scan"
    /\ IF g[p].todo = {}
          THEN /\ lastCleanup' = g[p].cnow
               /\ lmu' = [lmu EXCEPT !.w = NoProc]
               /\ g' = [g EXCEPT ![p].pc = "tb_lock", ![p].cnow = 0]
          ELSE /\ \E k \in g[p].todo :
                     g' = [g EXCEPT ![p].pc = "tb_lock", ![p].ck = k,
                                    ![p].b = buckets[k], ![p].ctx = "cleanup"]
               /\ UNCHANGED <<lastCleanup, lmu>>
    /\ UNCHANGED <<now, patvars, heap, tally, buckets, ops, admits, seen, gwvars>>

\* if bucket.Available() == bucket.Capacity() { delete(l.buckets, key) }
EvictAny(available, capacity) == TRUE
EvictTest(available, capacity) == available = capacity

CleanupDecide(p) ==
    /\ g[p].pc = "cl_decide"
    /\ buckets' = IF EvictTest(g[p].ret, heap[g[p].b].capacity)
                     THEN [buckets EXCEPT ![g[p].ck] = NoBucket]
                     ELSE buckets
    /\ g' = [g EXCEPT ![p].pc = "cl_scan", ![p].todo = @ \ {g[p].ck},
                      ![p].ck = NoKey, ![p].ctx = "top", ![p].b = g[p].mine,
                      ![p].ret = 0, ![p].after = 0]
    /\ heap' = Collect(heap, buckets', g')
    /\ UNCHANGED <<now, patvars, tally, lmu, lastCleanup, ops, admits, seen, gwvars>>

\* Stats()["total_keys"]: len(l.buckets)
TotalKeys(bks) == Cardinality({k \in Keys : bks[k] # NoBucket})

\* Reset(key): l.mu.Lock(); delete(l.buckets, key); l.mu.Unlock()
ResetEvery(k) ==
    /\ WLockFree(lmu)
    /\ buckets[k] # NoBucket
    /\ buckets' = [j \in Keys |-> NoBucket]
    /\ g' = [p \in DOMAIN g |-> IF InFlight(p) /\ g[p].key = k
                                   THEN [g[p] EXCEPT !.stale = TRUE] ELSE g[p]]
    /\ admits' = [admits EXCEPT ![k] = 0]
    /\ heap' = Collect(heap, buckets', g')
    /\ ops < MaxOps
    /\ ops' = ops + 1
    /\ seen' = [seen EXCEPT !.reset = TRUE]
    /\ UNCHANGED <<now, patvars, tally, lmu, lastCleanup, gwvars>>
Reset(k) ==
    /\ WLockFree(lmu)
    /\ buckets[k] # NoBucket
    /\ buckets' = [buckets EXCEPT ![k] = NoBucket]
    /\ g' = [p \in DOMAIN g |-> IF InFlight(p) /\ g[p].key = k
                                   THEN [g[p] EXCEPT !.stale = TRUE] ELSE g[p]]
    /\ admits' = [admits EXCEPT ![k] = 0]
    /\ heap' = Collect(heap, buckets', g')
    /\ ops < MaxOps
    /\ ops' = ops + 1
    /\ seen' = [seen EXCEPT !.reset = TRUE]
    /\ UNCHANGED <<now, patvars, tally, lmu, lastCleanup, gwvars>>

\* ResetAll(): l.mu.Lock(); l.buckets = make(map); l.mu.Unlock()
ResetAll ==
    /\ WLockFree(lmu)
    /\ \E k \in Keys : buckets[k] # NoBucket
    /\ buckets' = [k \in Keys |-> NoBucket]
    /\ g' = [p \in DOMAIN g |-> IF InFlight(p)
                                   THEN [g[p] EXCEPT !.stale = TRUE] ELSE g[p]]
    /\ admits' = [k \in Keys |-> 0]
    /\ heap' = Collect(heap, buckets', g')
    /\ ops < MaxOps
    /\ ops' = ops + 1
    /\ seen' = [seen EXCEPT !.reset = TRUE]
    /\ UNCHANGED <<now, patvars, tally, lmu, lastCleanup, gwvars>>

LimiterTick == Advance(MaxLimiterTime)

\* NewLimiter(capacity, refillRate, interval): an empty map, lastCleanup = now.
LimiterInit ==
    /\ now = 0
    /\ heap = [i \in BucketIds |-> FreeSlot]
    /\ g = [p \in Goroutines |-> Idle]
    /\ fresh = FALSE
    /\ allowed = 0
    /\ denied = 0
    /\ buckets = [k \in Keys |-> NoBucket]
    /\ lmu = [w |-> NoProc, r |-> {}]
    /\ lastCleanup = 0
    /\ ops = 0
    /\ admits = [k \in Keys |-> 0]
    /\ seen = [keys |-> {}, reset |-> FALSE, picks |-> <<>>, granted |-> 0,
               negative |-> FALSE]
    /\ PatternsIdle
    /\ GatewayIdle

LimiterNext ==
    \/ \E p \in Goroutines : LCall(p)
    \/ \E p \in Goroutines : GBRead(p)
    \/ \E p \in Goroutines : GBLock(p)
    \/ \E p \in Goroutines : GBCreate(p)
    \/ \E p \in Goroutines : CleanupStart(p)
    \/ \E p \in Goroutines : CleanupScan(p)
    \/ \E p \in Goroutines : CleanupDecide(p)
    \/ \E p \in Goroutines : TBLock(p)
    \/ \E p \in Goroutines : TBCheck(p)
    \/ \E p \in Goroutines : TBTake(p)
    \/ \E p \in Goroutines : TBUnlock(p)
    \/ \E k \in Keys : Reset(k)
    \/ ResetAll
    \/ LimiterTick

SpecLimiter == LimiterInit /\ [][LimiterNext]_vars

\* ---------------------------------------------------------------- Gateway

\* HTTP status codes written by the gateway and the middleware.
StatusOK == 200
StatusNotFound == 404
StatusTooManyRequests == 429
StatusInternalServerError == 500
StatusBadGateway == 502
StatusServiceUnavailable == 503

\* The request paths: one with a route in g.routes, one without.
RoutedPath == "/api"
UnroutedPath == "/none"
Paths == {RoutedPath, UnroutedPath}

\* Target addresses as AddRoute receives them, and url.Parse: an address
\* with a malformed percent-escape in its host is rejected, the others parse
\* into scheme and host.
GoodAddresses == {"http://a:8081", "http://b:8082"}
BadAddresses == {"http://%zz"}
Addresses == GoodAddresses \cup BadAddresses
NoURL == [scheme |-> "", host |-> ""]
ParseURL(s) ==
    IF s \in BadAddresses
       THEN [err |-> TRUE, url |-> NoURL]
       ELSE [err |-> FALSE,
             url |-> [scheme |-> "http",
                      host |-> IF s = "http://a:8081" THEN "a:8081" ELSE "b:8082"]]

\* A *Route as g.routes holds it: its backends' URLs, in order. A path that
\* has no entry maps to NoRoute.
NoRoute == [exists |-> FALSE, backends |-> <<>>]
EmptyRoute == [exists |-> TRUE, backends |-> <<>>]

\* The route of the running gateway: one backend per element of Backends.
ConfiguredRoutes ==
    [path \in Paths |->
        IF path = RoutedPath
           THEN [exists |-> TRUE,
                 backends |-> [b \in Backends |->
                                  ParseURL(IF b % 2 = 1 THEN "http://a:8081"
                                                        ELSE "http://b:8082").url]]
           ELSE NoRoute]

\* route, exists := g.routes[r.URL.Path]
RouteExists(path) == routes[path].exists

\* r.Backends[c], for a cursor c counted from 0.
BackendAt(c) == c + 1

\* r.current = (r.current + 1) % len(r.Backends)
NextCursorStuck(c, len) == c % len
NextCursor(c, len) == (c + 1) % len

\* NextBackend's loop bound: i < len(r.Backends)
ScanOneLess(i, len) == i < len - 1
ScanMore(i, len) == i < len

\* IsAlive(), as NextBackend's loop reads it.
IsAliveBlind(b) == TRUE
IsAlive(b) == alive[b]

\* The bodies of the responses: the middleware's, http.NotFound's,
\* handleRequest's, the proxy ErrorHandler's, and a relayed backend body.
BodyRateLimited == "rate limit exceeded"
BodyNotFound == "404 page not found"
BodyUnavailable == "service unavailable"
BodyBadGateway == "bad gateway"
BodyBackend == "backend"
NoBody == "-"

\* The statuses a backend answers with.
BackendStatuses == {StatusOK, StatusInternalServerError, StatusBadGateway}

\* A client's locals: the request (path, key; skip, what the configured
\* SkipFunc returns for it), Limiter.Allow's result (ok),
\* NextBackend's loop counter (i) and result (backend), whether forwarding
\* met a transport failure (terr), the response (status; body; hdrs, the
\* names of its rate-limit headers; limit and reset, their values), and
\* ghosts: the backends NextBackend has read as dead in this call (dead),
\* the cursor as the call found it (from), the number of responses written
\* for the request (writes), and whether the client sends the request again
\* after a 503 answer (retry).
NoPath == "-"
NoRequest == [pc |-> "idle", path |-> NoPath, key |-> NoKey, skip |-> FALSE,
              ok |-> FALSE, retry |-> FALSE,
              i |-> 0, backend |-> NoBackend, dead |-> {}, from |-> 0,
              terr |-> FALSE,
              status |-> 0, body |-> NoBody, hdrs |-> {},
              limit |-> 0, reset |-> 0, writes |-> 0]

\* len(r.Backends), for the route a request was looked up, or the route a
\* direct caller holds.
RouteLen(r) == Len(routes[IF r.path = NoPath THEN RoutedPath ELSE r.path].backends)

\* A request arrives: Handler() wraps handleRequest in the RateLimit middleware.
\* The key is what IPKeyExtractor makes of the client's address and headers.
GWReceive(p) ==
    /\ rq[p].pc \in {"idle", "done"}
    /\ \E path \in Paths : \E k \in Keys :
          rq' = [rq EXCEPT ![p] = [NoRequest EXCEPT !.pc = "ratelimit",
                                                     !.path = path, !.key = k]]
    /\ UNCHANGED <<now, patvars, heap, g, tally, lvars, admits, seen, stats, rtvars,
                   alive, current, rmu, lastSel, hc, tickReady, cancelled, probe>>

\* A client whose request was answered 503 sends the same request again.
GWRetry(p) ==
    /\ rq[p].pc = "done"
    /\ rq[p].status = StatusServiceUnavailable
    /\ rq' = [rq EXCEPT ![p] = [NoRequest EXCEPT !.pc = "ratelimit",
                                                 !.path = rq[p].path,
                                                 !.key = rq[p].key, !.retry = TRUE]]
    /\ UNCHANGED <<now, patvars, heap, g, tally, lvars, admits, seen, stats, rtvars,
                   alive, current, rmu, lastSel, hc, tickReady, cancelled, probe>>

\* Limiter.Allow(key) run without interruption: getBucket (create, and cleanup
\* when due), then bucket.Allow().
SeqAllow(k) ==
    LET b0 == Lookup(buckets, k)
        created == ~Recheck(b0)
        id == CHOOSE i \in BucketIds : heap[i] = FreeSlot
        mine == IF created THEN id ELSE b0
        heap1 == IF created
                    THEN [heap EXCEPT ![id] =
                             NewTokenBucket(Capacity, RefillRate, Interval, now)]
                    ELSE heap
        bks1 == IF created THEN [buckets EXCEPT ![k] = id] ELSE buckets
        due == created /\ CleanupDue(now, lastCleanup)
        heap2 == IF due
                    THEN [i \in BucketIds |->
                             IF \E kk \in Keys : bks1[kk] = i
                                THEN Refill(heap1[i], now) ELSE heap1[i]]
                    ELSE heap1
        bks2 == IF due
                   THEN [kk \in Keys |->
                            IF /\ bks1[kk] # NoBucket
                               /\ EvictTest(heap2[bks1[kk]].tokens,
                                            heap2[bks1[kk]].capacity)
                               THEN NoBucket ELSE bks1[kk]]
                   ELSE bks1
        tb == Refill(heap2[mine], now)
        ok == AllowTest(tb.tokens)
        tb2 == IF ok THEN [tb EXCEPT !.tokens = @ - TakeOf("Allow", 0)] ELSE tb
    IN  [ok |-> ok,
         buckets |-> bks2,
         lastCleanup |-> IF due THEN now ELSE lastCleanup,
         heap |-> Collect([heap2 EXCEPT ![mine] = tb2], bks2, g)]

\* DefaultRateLimitHandler: Content-Type, 429 and the error body; no
\* rate-limit header.
DeniedHeaders == {}
\* AddRateLimitHeaders: X-RateLimit-Limit and X-RateLimit-Reset.
AdmittedHeaders == {"X-RateLimit-Limit", "X-RateLimit-Reset"}

\* if !config.Limiter.Allow(key) { config.OnRateLimitExceeded(w, r); return }
DeniedFallsThrough(r) ==
    [r EXCEPT !.pc = "lookup", !.ok = FALSE, !.hdrs = DeniedHeaders,
              !.status = StatusTooManyRequests, !.body = BodyRateLimited,
              !.writes = @ + 1]
Denied(r) ==
    [r EXCEPT !.pc = "done", !.ok = FALSE, !.hdrs = DeniedHeaders,
              !.status = StatusTooManyRequests, !.body = BodyRateLimited,
              !.writes = @ + 1]

\* if config.SkipFunc != nil && config.SkipFunc(r)
SkipsNever(r) == FALSE
Skips(r) == r.skip

\* The middleware: if the request is skipped { next.ServeHTTP; return };
\* key := KeyExtractor(r); if !Limiter.Allow(key) { OnRateLimitExceeded(w, r);
\* return }; AddRateLimitHeaders; next.ServeHTTP.
GWRateLimit(p) ==
    /\ rq[p].pc = "ratelimit"
    /\ IF Skips(rq[p])
          THEN /\ rq' = [rq EXCEPT ![p].pc = "lookup"]
               /\ UNCHANGED <<heap, buckets, lastCleanup>>
          ELSE LET a == SeqAllow(rq[p].key)
               IN  /\ heap' = a.heap
                   /\ buckets' = a.buckets
                   /\ lastCleanup' = a.lastCleanup
                   /\ IF a.ok
                         THEN rq' = [rq EXCEPT ![p].pc = "lookup",
                                               ![p].ok = TRUE,
                                               ![p].hdrs = AdmittedHeaders,
                                               ![p].limit = Capacity,
                                               ![p].reset = now + Interval]
                         ELSE rq' = [rq EXCEPT ![p] = Denied(rq[p])]
    /\ UNCHANGED <<now, patvars, g, tally, lmu, ops, admits, seen, stats, rtvars,
                   alive, current, rmu, lastSel, hc, tickReady, cancelled, probe>>

\* handleRequest: route, exists := g.routes[r.URL.Path]; http.NotFound if not.
GWLookup(p) ==
    /\ rq[p].pc = "lookup"
    /\ IF RouteExists(rq[p].path)
          THEN rq' = [rq EXCEPT ![p].pc = "nb_lock"]
          ELSE rq' = [rq EXCEPT ![p].pc = "done", ![p].status = StatusNotFound,
                                ![p].body = BodyNotFound, ![p].writes = @ + 1]
    /\ UNCHANGED <<now, patvars, heap, g, tally, lvars, admits, seen, stats, rtvars,
                   alive, current, rmu, lastSel, hc, tickReady, cancelled, probe>>

\* NextBackend: r.mu.Lock()
NBLockNoWait(p) ==
    /\ rq[p].pc = "nb_lock"
    /\ rmu' = p
    /\ rq' = [rq EXCEPT ![p].pc = "nb_loop", ![p].i = 0, ![p].dead = {},
                        ![p].from = current]
    /\ UNCHANGED <<now, patvars, heap, g, tally, lvars, admits, seen, stats, rtvars,
                   alive, current, lastSel, hc, tickReady, cancelled, probe>>
NBLock(p) ==
    /\ rq[p].pc = "nb_lock"
    /\ MutexFree(rmu)
    /\ rmu' = p
    /\ rq' = [rq EXCEPT ![p].pc = "nb_loop", ![p].i = 0, ![p].dead = {},
                        ![p].from = current]
    /\ UNCHANGED <<now, patvars, heap, g, tally, lvars, admits, seen, stats, rtvars,
                   alive, current, lastSel, hc, tickReady, cancelled, probe>>

\* A goroutine calls route.NextBackend() on its own, outside any request.
RouteCall(p) ==
    /\ rq[p].pc \in {"idle", "returned"}
    /\ rq' = [rq EXCEPT ![p] = [NoRequest EXCEPT !.pc = "nb_lock"]]
    /\ UNCHANGED <<now, patvars, heap, g, tally, lvars, admits, seen, stats, rtvars,
                   alive, current, rmu, lastSel, hc, tickReady, cancelled, probe>>

\* What the caller does with NextBackend's result. handleRequest: 503 when it
\* is nil, otherwise on to the reverse proxy. A direct caller just holds it.
\* NextBackend's locals are gone once handleRequest goes on.
AfterNextBackendNotFound(r, b) ==
    IF r.path = NoPath
       THEN [r EXCEPT !.pc = "returned", !.backend = b]
       ELSE IF b = NoBackend
               THEN [r EXCEPT !.pc = "done", !.backend = NoBackend,
                              !.i = 0, !.dead = {}, !.from = 0,
                              !.status = StatusNotFound,
                              !.body = BodyNotFound, !.writes = @ + 1]
               ELSE [r EXCEPT !.pc = "forward", !.backend = b,
                              !.i = 0, !.dead = {}, !.from = 0]
AfterNextBackend(r, b) ==
    IF r.path = NoPath
       THEN [r EXCEPT !.pc = "returned", !.backend = b]
       ELSE IF b = NoBackend
               THEN [r EXCEPT !.pc = "done", !.backend = NoBackend,
                              !.i = 0, !.dead = {}, !.from = 0,
                              !.status = StatusServiceUnavailable,
                              !.body = BodyUnavailable, !.writes = @ + 1]
               ELSE [r EXCEPT !.pc = "forward", !.backend = b,
                              !.i = 0, !.dead = {}, !.from = 0]

\* One iteration of NextBackend's loop, or its end: advance the cursor, read
\* the backend's flag, return the backend if it is alive; return nil after
\* len(r.Backends) iterations. Returning runs the deferred r.mu.Unlock().
NBStep(p) ==
    /\ rq[p].pc = "nb_loop"
    /\ IF ScanMore(rq[p].i, RouteLen(rq[p]))
          THEN LET c == NextCursor(current, RouteLen(rq[p]))
                   b == BackendAt(c)
               IN  /\ current' = c
                   /\ IF IsAlive(b)
                         THEN /\ rq' = [rq EXCEPT ![p] = AfterNextBackend(rq[p], b)]
                              /\ rmu' = IF rmu = p THEN NoProc ELSE rmu
                              /\ lastSel' = b
                              /\ seen' = IF rq[p].path = NoPath /\ \A d \in Backends : alive[d]
                                            THEN [seen EXCEPT !.picks =
                                                     IF Len(@) < MaxRounds * NumBackends
                                                        THEN Append(@, b) ELSE <<b>>]
                                            ELSE seen
                         ELSE /\ rq' = [rq EXCEPT ![p].i = @ + 1,
                                                  ![p].dead = @ \cup {b}]
                              /\ UNCHANGED <<rmu, lastSel, seen>>
          ELSE /\ rq' = [rq EXCEPT ![p] = AfterNextBackend(rq[p], NoBackend)]
               /\ rmu' = IF rmu = p THEN NoProc ELSE rmu
               /\ UNCHANGED <<current, lastSel, seen>>
    /\ UNCHANGED <<now, patvars, heap, g, tally, lvars, admits, stats, rtvars,
                   alive, hc, tickReady, cancelled, probe>>

\* backend.ReverseProxy.ServeHTTP: the backend's response relayed, or the
\* proxy's ErrorHandler writing 502 on a transport failure.
GWForwardMarksDead(p) ==
    /\ rq[p].pc = "forward"
    /\ \/ /\ rq' = [rq EXCEPT ![p].pc = "done", ![p].terr = TRUE,
                               ![p].status = StatusBadGateway,
                               ![p].body = BodyBadGateway, ![p].writes = @ + 1]
          /\ alive' = [alive EXCEPT ![rq[p].backend] = FALSE]
       \/ /\ \E st \in BackendStatuses :
                rq' = [rq EXCEPT ![p].pc = "done", ![p].status = st,
                                 ![p].body = BodyBackend, ![p].writes = @ + 1]
          /\ UNCHANGED alive
    /\ UNCHANGED <<now, patvars, heap, g, tally, lvars, admits, seen, stats, rtvars,
                   current, rmu, lastSel, hc, tickReady, cancelled, probe>>
GWForward(p) ==
    /\ rq[p].pc = "forward"
    /\ \/ rq' = [rq EXCEPT ![p].pc = "done", ![p].terr = TRUE,
                            ![p].status = StatusBadGateway,
                            ![p].body = BodyBadGateway, ![p].writes = @ + 1]
       \/ \E st \in BackendStatuses :
             rq' = [rq EXCEPT ![p].pc = "done", ![p].status = st,
                              ![p].body = BodyBackend, ![p].writes = @ + 1]
    /\ UNCHANGED <<now, patvars, heap, g, tally, lvars, admits, seen, stats, rtvars,
                   alive, current, rmu, lastSel, hc, tickReady, cancelled, probe>>

\* Backend.SetAlive(v), as a health probe calls it.
SetAlive(b, v) ==
    /\ alive' = [alive EXCEPT ![b] = v]
    /\ lastSel' = IF alive[b] # v THEN NoBackend ELSE lastSel
    /\ seen' = IF alive[b] # v THEN [seen EXCEPT !.picks = <<>>] ELSE seen
    /\ UNCHANGED <<now, patvars, heap, g, tally, lvars, admits, stats, rtvars,
                   current, rmu, rq, hc, tickReady, cancelled, probe>>

\* NewGateway and AddRoute(RoutedPath, ...): every backend starts alive, the
\* cursor at 0, the limiter empty.
GatewayInit ==
    /\ now = 0
    /\ heap = [i \in BucketIds |-> FreeSlot]
    /\ g = <<>>
    /\ fresh = FALSE
    /\ allowed = 0
    /\ denied = 0
    /\ buckets = [k \in Keys |-> NoBucket]
    /\ lmu = [w |-> NoProc, r |-> {}]
    /\ lastCleanup = 0
    /\ ops = 0
    /\ admits = [k \in Keys |-> 0]
    /\ seen = [keys |-> {}, reset |-> FALSE, picks |-> <<>>, granted |-> 0,
               negative |-> FALSE]
    /\ PatternsIdle
    /\ alive = [b \in Backends |-> TRUE]
    /\ current = 0
    /\ rmu = NoProc
    /\ rq = [p \in Clients |-> NoRequest]
    /\ lastSel = NoBackend
    /\ hc = "off"
    /\ tickReady = FALSE
    /\ cancelled = FALSE
    /\ probe = [b \in Backends |-> [pc |-> "none", res |-> FALSE]]
    /\ routes = ConfiguredRoutes
    /\ gmu = [w |-> NoProc, r |-> {}]
    /\ adm = <<>>
    /\ stats = NoStats

GatewayNext ==
    \/ \E p \in Clients : GWReceive(p)
    \/ \E p \in Clients : GWRateLimit(p)
    \/ \E p \in Clients : GWLookup(p)
    \/ \E p \in Clients : NBLock(p)
    \/ \E p \in Clients : NBStep(p)
    \/ \E p \in Clients : GWForward(p)
    \/ \E b \in Backends : \E v \in BOOLEAN : SetAlive(b, v)

SpecGateway == GatewayInit /\ [][GatewayNext]_vars

\* NewGateway and AddRoute(RoutedPath, targets), with one target per element
\* of Backends or with none.
AnyRouteInit ==
    /\ now = 0
    /\ heap = [i \in BucketIds |-> FreeSlot]
    /\ g = <<>>
    /\ fresh = FALSE
    /\ allowed = 0
    /\ denied = 0
    /\ buckets = [k \in Keys |-> NoBucket]
    /\ lmu = [w |-> NoProc, r |-> {}]
    /\ lastCleanup = 0
    /\ ops = 0
    /\ admits = [k \in Keys |-> 0]
    /\ seen = [keys |-> {}, reset |-> FALSE, picks |-> <<>>, granted |-> 0,
               negative |-> FALSE]
    /\ PatternsIdle
    /\ alive = [b \in Backends |-> TRUE]
    /\ current = 0
    /\ rmu = NoProc
    /\ rq = [p \in Clients |-> NoRequest]
    /\ lastSel = NoBackend
    /\ hc = "off"
    /\ tickReady = FALSE
    /\ cancelled = FALSE
    /\ probe = [b \in Backends |-> [pc |-> "none", res |-> FALSE]]
    /\ routes \in {ConfiguredRoutes, [ConfiguredRoutes EXCEPT ![RoutedPath] = EmptyRoute]}
    /\ gmu = [w |-> NoProc, r |-> {}]
    /\ adm = <<>>
    /\ stats = NoStats

SpecAnyRoute == AnyRouteInit /\ [][GatewayNext]_vars

\* The middleware on its own, configured with a SkipFunc and wrapping a
\* handler that answers every request: a request arrives ...
MWReceive(p) ==
    /\ rq[p].pc \in {"idle", "done"}
    /\ \E k \in Keys : \E skip \in BOOLEAN :
          rq' = [rq EXCEPT ![p] = [NoRequest EXCEPT !.pc = "ratelimit", !.key = k,
                                                     !.skip = skip]]
    /\ UNCHANGED <<now, patvars, heap, g, tally, lvars, admits, seen, stats, rtvars,
                   alive, current, rmu, lastSel, hc, tickReady, cancelled, probe>>

\* ... and next.ServeHTTP(w, r) writes the wrapped handler's response.
MWNext(p) ==
    /\ rq[p].pc = "lookup"
    /\ rq' = [rq EXCEPT ![p].pc = "done", ![p].status = StatusOK,
                        ![p].body = BodyBackend, ![p].writes = @ + 1]
    /\ UNCHANGED <<now, patvars, heap, g, tally, lvars, admits, seen, stats, rtvars,
                   alive, current, rmu, lastSel, hc, tickReady, cancelled, probe>>

MiddlewareNext ==
    \/ \E p \in Clients : MWReceive(p)
    \/ \E p \in Clients : GWRateLimit(p)
    \/ \E p \in Clients : MWNext(p)

SpecMiddleware == GatewayInit /\ [][MiddlewareNext]_vars

\* The route alone: goroutines calling NextBackend while backends' flags are
\* set.
RouteNext ==
    \/ \E p \in Clients : RouteCall(p)
    \/ \E p \in Clients : NBLock(p)
    \/ \E p \in Clients : NBStep(p)
    \/ \E b \in Backends : \E v \in BOOLEAN : SetAlive(b, v)

SpecRoute == GatewayInit /\ [][RouteNext]_vars

\* ------------------------------------------------------------ Routing table

\* The target lists passed to AddRoute: up to MaxTargets addresses.
TargetLists == UNION {[1..n -> Addresses] : n \in 0..MaxTargets}

\* An AddRoute caller's locals: the arguments (path, urls), the loop index
\* (i), the route under construction (route), the error returned (err), and
\* ghosts: the table when the call took the lock (before), and, once the
\* call has returned, whether it had built part of a route (partial) and
\* whether the path had a route already (replaced).
NoAdmin == [pc |-> "idle", path |-> NoPath, urls |-> <<>>, i |-> 0,
            route |-> NoRoute, before |-> <<>>, err |-> FALSE,
            partial |-> FALSE, replaced |-> FALSE]

\* AddRoute(path, backendURLs): g.mu.Lock(); route := &Route{Path: path, ...}
ARLock(a) ==
    /\ adm[a].pc \in {"idle", "returned"}
    /\ WLockFree(gmu)
    /\ gmu' = [gmu EXCEPT !.w = a]
    /\ \E path \in Paths : \E urls \in TargetLists :
          adm' = [adm EXCEPT ![a] = [NoAdmin EXCEPT !.pc = "ar_loop", !.path = path,
                                                    !.urls = urls, !.i = 1,
                                                    !.route = EmptyRoute,
                                                    !.before = routes]]
    /\ UNCHANGED <<now, patvars, heap, g, tally, lvars, admits, seen, stats,
                   alive, current, rmu, rq, lastSel, hc, tickReady, cancelled,
                   probe, routes>>

\* What a failed url.Parse leaves in the table: AddRoute returns the error,
\* and the route under construction is dropped.
AfterParseErrorKeepsPartial(rt, path, route) == [rt EXCEPT ![path] = route]
AfterParseError(rt, path, route) == rt

\* g.routes[path] = route
InstallAppends(rt, path, route) ==
    [rt EXCEPT ![path] = [exists |-> TRUE,
                          backends |-> rt[path].backends \o route.backends]]
Install(rt, path, route) == [rt EXCEPT ![path] = route]

\* What a returned AddRoute call keeps: its result.
Returned(c, err) ==
    [NoAdmin EXCEPT !.pc = "returned", !.err = err,
                    !.partial = err /\ c.route.backends # <<>>,
                    !.replaced = c.before[c.path].exists]

\* One iteration of AddRoute's loop over backendURLs: url.Parse, return the
\* error if it fails, else append the new Backend; after the last one,
\* g.routes[path] = route and return nil. Returning runs the deferred
\* g.mu.Unlock().
ARStep(a) ==
    /\ adm[a].pc = "ar_loop"
    /\ LET c == adm[a]
       IN  IF c.i <= Len(c.urls)
              THEN LET parsed == ParseURL(c.urls[c.i])
                   IN  IF parsed.err
                          THEN /\ routes' = AfterParseError(routes, c.path, c.route)
                               /\ adm' = [adm EXCEPT ![a] = Returned(c, TRUE)]
                               /\ gmu' = [gmu EXCEPT !.w = NoProc]
                          ELSE /\ adm' = [adm EXCEPT
                                            ![a].route.backends = Append(@, parsed.url),
                                            ![a].i = @ + 1]
                               /\ UNCHANGED <<routes, gmu>>
              ELSE /\ routes' = Install(routes, c.path, c.route)
                   /\ adm' = [adm EXCEPT ![a] = Returned(c, FALSE)]
                   /\ gmu' = [gmu EXCEPT !.w = NoProc]
    /\ UNCHANGED <<now, patvars, heap, g, tally, lvars, admits, seen, stats,
                   alive, current, rmu, rq, lastSel, hc, tickReady, cancelled,
                   probe>>

\* NewGateway: an empty routing table.
RoutesInit ==
    /\ now = 0
    /\ heap = [i \in BucketIds |-> FreeSlot]
    /\ g = <<>>
    /\ fresh = FALSE
    /\ allowed = 0
    /\ denied = 0
    /\ buckets = [k \in Keys |-> NoBucket]
    /\ lmu = [w |-> NoProc, r |-> {}]
    /\ lastCleanup = 0
    /\ ops = 0
    /\ admits = [k \in Keys |-> 0]
    /\ seen = [keys |-> {}, reset |-> FALSE, picks |-> <<>>, granted |-> 0,
               negative |-> FALSE]
    /\ PatternsIdle
    /\ alive = [b \in Backends |-> TRUE]
    /\ current = 0
    /\ rmu = NoProc
    /\ rq = <<>>
    /\ lastSel = NoBackend
    /\ hc = "off"
    /\ tickReady = FALSE
    /\ cancelled = FALSE
    /\ probe = [b \in Backends |-> [pc |-> "none", res |-> FALSE]]
    /\ routes = [path \in Paths |-> NoRoute]
    /\ gmu = [w |-> NoProc, r |-> {}]
    /\ adm = [a \in Admins |-> NoAdmin]
    /\ stats = NoStats

RoutesNext ==
    \/ \E a \in Admins : ARLock(a)
    \/ \E a \in Admins : ARStep(a)

SpecRoutes == RoutesInit /\ [][RoutesNext]_vars

\* ----------------------------------------------------------- Health checker

\* What a probe meets: http.NewRequestWithContext fails (RequestError);
\* http.DefaultClient.Do(req) fails, on a transport error, on the 2s timeout or
\* on a cancelled context (ProbeError); or a response with a status code.
RequestError == -1
ProbeError == 0
ProbeOutcomes == {RequestError, ProbeError, StatusOK, StatusNotFound,
                  StatusInternalServerError}

\* isBackendAlive's verdict: false on an error, otherwise
\* resp.StatusCode >= 200 && resp.StatusCode < 500.
HealthyAnyResponse(outcome) == outcome > ProbeError
Healthy(outcome) == outcome > ProbeError /\ outcome >= 200 /\ outcome < 500

\* The health-check goroutine, as a holder of g.mu.
HealthChecker == NumClients + NumAdmins + 1

NoProbe == [pc |-> "none", res |-> FALSE]

\* StartHealthCheck: time.NewTicker, and the goroutine enters its select.
HCStart ==
    /\ hc = "off"
    /\ hc' = "select"
    /\ UNCHANGED <<now, patvars, heap, g, tally, lvars, admits, seen, stats, rtvars,
                   alive, current, rmu, rq, lastSel, tickReady, cancelled, probe>>

\* The ticker puts a tick in ticker.C (capacity 1) until ticker.Stop().
TickerFire ==
    /\ hc \in {"select", "snapshot", "round"}
    /\ ~tickReady
    /\ tickReady' = TRUE
    /\ UNCHANGED <<now, patvars, heap, g, tally, lvars, admits, seen, stats, rtvars,
                   alive, current, rmu, rq, lastSel, hc, cancelled, probe>>

\* select takes case <-ticker.C: healthCheckAll begins with g.mu.RLock() and
\* copies the routes. select chooses among its ready cases, so a cancelled
\* context does not disable this one.
HCBeginRound ==
    /\ hc = "select"
    /\ tickReady
    /\ RLockFree(gmu)
    /\ tickReady' = FALSE
    /\ hc' = "snapshot"
    /\ gmu' = [gmu EXCEPT !.r = @ \cup {HealthChecker}]
    /\ UNCHANGED <<now, patvars, heap, g, tally, lvars, admits, seen, stats,
                   routes, adm, alive, current, rmu, rq, lastSel, cancelled, probe>>

\* g.mu.RUnlock(), then one probe goroutine per backend of the copied routes
\* and wg.Wait().
HCSpawnLocked ==
    /\ hc = "snapshot"
    /\ hc' = "round"
    /\ probe' = [b \in Backends |-> [pc |-> "do", res |-> FALSE]]
    /\ UNCHANGED <<now, patvars, heap, g, tally, lvars, admits, seen, stats, rtvars,
                   alive, current, rmu, rq, lastSel, tickReady, cancelled>>
HCSpawn ==
    /\ hc = "snapshot"
    /\ hc' = "round"
    /\ gmu' = [gmu EXCEPT !.r = @ \ {HealthChecker}]
    /\ probe' = [b \in Backends |-> [pc |-> "do", res |-> FALSE]]
    /\ UNCHANGED <<now, patvars, heap, g, tally, lvars, admits, seen, stats,
                   routes, adm, alive, current, rmu, rq, lastSel, tickReady,
                   cancelled>>

\* select takes case <-g.ctx.Done(): ticker.Stop(); return.
HCExitAfterTicks ==
    /\ hc = "select"
    /\ cancelled
    /\ ~tickReady
    /\ hc' = "exited"
    /\ UNCHANGED <<now, patvars, heap, g, tally, lvars, admits, seen, stats, rtvars,
                   alive, current, rmu, rq, lastSel, tickReady, cancelled, probe>>
HCExit ==
    /\ hc = "select"
    /\ cancelled
    /\ hc' = "exited"
    /\ UNCHANGED <<now, patvars, heap, g, tally, lvars, admits, seen, stats, rtvars,
                   alive, current, rmu, rq, lastSel, tickReady, cancelled, probe>>

\* alive := g.isBackendAlive(b.URL): the request carries a context derived
\* from g.ctx, so once g.ctx is cancelled Do fails and the verdict is false.
ProbeDo(b, outcome) ==
    /\ probe[b].pc = "do"
    /\ cancelled => outcome \in {RequestError, ProbeError}
    /\ probe' = [probe EXCEPT ![b] = [pc |-> "set", res |-> Healthy(outcome)]]
    /\ UNCHANGED <<now, patvars, heap, g, tally, lvars, admits, seen, stats, rtvars,
                   alive, current, rmu, rq, lastSel, hc, tickReady, cancelled>>

\* b.SetAlive(alive); wg.Done()
ProbeSetNoRevive(b) ==
    /\ probe[b].pc = "set"
    /\ alive' = [alive EXCEPT ![b] = alive[b] /\ probe[b].res]
    /\ lastSel' = IF alive[b] # alive'[b] THEN NoBackend ELSE lastSel
    /\ seen' = IF alive[b] # alive'[b] THEN [seen EXCEPT !.picks = <<>>] ELSE seen
    /\ probe' = [probe EXCEPT ![b].pc = "done"]
    /\ UNCHANGED <<now, patvars, heap, g, tally, lvars, admits, stats, rtvars,
                   current, rmu, rq, hc, tickReady, cancelled>>
ProbeSet(b) ==
    /\ probe[b].pc = "set"
    /\ alive' = [alive EXCEPT ![b] = probe[b].res]
    /\ lastSel' = IF alive[b] # probe[b].res THEN NoBackend ELSE lastSel
    /\ seen' = IF alive[b] # probe[b].res THEN [seen EXCEPT !.picks = <<>>] ELSE seen
    /\ probe' = [probe EXCEPT ![b].pc = "done"]
    /\ UNCHANGED <<now, patvars, heap, g, tally, lvars, admits, stats, rtvars,
                   current, rmu, rq, hc, tickReady, cancelled>>

\* wg.Wait() returns, healthCheckAll returns, back to the select.
HCJoinEarly ==
    /\ hc = "round"
    /\ hc' = "select"
    /\ UNCHANGED <<now, patvars, heap, g, tally, lvars, admits, seen, stats, rtvars,
                   alive, current, rmu, rq, lastSel, tickReady, cancelled, probe>>
HCJoin ==
    /\ hc = "round"
    /\ \A b \in Backends : probe[b].pc = "done"
    /\ hc' = "select"
    /\ probe' = [b \in Backends |-> NoProbe]
    /\ UNCHANGED <<now, patvars, heap, g, tally, lvars, admits, seen, stats, rtvars,
                   alive, current, rmu, rq, lastSel, tickReady, cancelled>>

\* Gateway.Stop(): g.cancel()
StopAborts ==
    /\ cancelled' = TRUE
    /\ rq' = [p \in DOMAIN rq |->
                 IF rq[p].pc = "forward"
                    THEN [rq[p] EXCEPT !.pc = "done", !.terr = TRUE,
                                       !.status = StatusBadGateway,
                                       !.body = BodyBadGateway, !.writes = @ + 1]
                    ELSE rq[p]]
    /\ UNCHANGED <<now, patvars, heap, g, tally, lvars, admits, seen, stats, rtvars,
                   alive, current, rmu, lastSel, hc, tickReady, probe>>
Stop ==
    /\ cancelled' = TRUE
    /\ UNCHANGED <<now, patvars, heap, g, tally, lvars, admits, seen, stats, rtvars,
                   alive, current, rmu, rq, lastSel, hc, tickReady, probe>>

HealthNext ==
    \/ HCStart
    \/ TickerFire
    \/ HCBeginRound
    \/ HCSpawn
    \/ HCExit
    \/ \E b \in Backends : \E outcome \in ProbeOutcomes : ProbeDo(b, outcome)
    \/ \E b \in Backends : ProbeSet(b)
    \/ HCJoin
    \/ Stop

SpecHealth == GatewayInit /\ [][HealthNext]_vars

\* The scheduler runs every goroutine that can go on; Do returns, with a
\* response or an error, within the probe's 2s timeout; and select chooses
\* among its ready cases at random, so a case that is ready again and again
\* is taken in the end.
SpecHealthLive ==
    /\ SpecHealth
    /\ WF_vars(HCSpawn)
    /\ WF_vars(HCJoin)
    /\ SF_vars(HCExit)
    /\ \A b \in Backends :
          /\ WF_vars(\E outcome \in ProbeOutcomes : ProbeDo(b, outcome))
          /\ WF_vars(ProbeSet(b))

\* The clients whose requests run beside the health checker or Stats().
ServedClients == 1..NumServed

\* Gateway.Stats(): under g.mu.RLock(), per route the number of backends and
\* of those whose IsAlive() is true; then limiter.Stats(), under l.mu.RLock():
\* len(l.buckets) and the configuration.
GStatsProbing ==
    /\ RLockFree(gmu)
    /\ RLockFree(lmu)
    /\ current' = NextCursor(current, NumBackends)
    /\ stats' = [called |-> TRUE,
                 routes |-> [path \in {q \in Paths : routes[q].exists} |->
                               [total_backends |-> Len(routes[path].backends),
                                alive_backends |-> IF IsAlive(BackendAt(current'))
                                                     THEN 1 ELSE 0]],
                 rate_limit |-> [total_keys |-> TotalKeys(buckets),
                                 capacity |-> Capacity,
                                 refill_rate |-> RefillRate]]
    /\ UNCHANGED <<now, patvars, heap, g, tally, lvars, admits, seen, rtvars,
                   alive, rmu, rq, lastSel, hc, tickReady, cancelled, probe>>
GStats ==
    /\ RLockFree(gmu)
    /\ RLockFree(lmu)
    /\ stats' = [called |-> TRUE,
                 routes |-> [path \in {q \in Paths : routes[q].exists} |->
                               [total_backends |-> Len(routes[path].backends),
                                alive_backends |->
                                    Cardinality({b \in DOMAIN routes[path].backends :
                                                    IsAlive(b)})]],
                 rate_limit |-> [total_keys |-> TotalKeys(buckets),
                                 capacity |-> Capacity,
                                 refill_rate |-> RefillRate]]
    /\ UNCHANGED <<now, patvars, heap, g, tally, lvars, admits, seen, rtvars,
                   alive, current, rmu, rq, lastSel, hc, tickReady, cancelled, probe>>

\* Stats() called on a gateway serving requests while backends' flags change.
StatsNext ==
    \/ \E p \in ServedClients : GWReceive(p)
    \/ \E p \in ServedClients : GWRateLimit(p)
    \/ \E p \in ServedClients : GWLookup(p)
    \/ \E p \in ServedClients : NBLock(p)
    \/ \E p \in ServedClients : NBStep(p)
    \/ \E p \in ServedClients : GWForward(p)
    \/ \E b \in Backends : \E v \in BOOLEAN : SetAlive(b, v)
    \/ GStats

SpecStats == GatewayInit /\ [][StatsNext]_vars

\* The running gateway: the requests of ServedClients, the health checker,
\* and Stop.
ServeNext ==
    \/ \E p \in ServedClients : GWReceive(p)
    \/ \E p \in ServedClients : GWRateLimit(p)
    \/ \E p \in ServedClients : GWLookup(p)
    \/ \E p \in ServedClients : NBLock(p)
    \/ \E p \in ServedClients : NBStep(p)
    \/ \E p \in ServedClients : GWForward(p)
    \/ HealthNext

SpecServe == GatewayInit /\ [][ServeNext]_vars

\* The gateway serving a client that retries, while the health checker runs
\* its rounds.
RecoverNext ==
    \/ \E p \in ServedClients : GWReceive(p)
    \/ \E p \in ServedClients : GWRetry(p)
    \/ \E p \in ServedClients : GWRateLimit(p)
    \/ \E p \in ServedClients : GWLookup(p)
    \/ \E p \in ServedClients : NBLock(p)
    \/ \E p \in ServedClients : NBStep(p)
    \/ \E p \in ServedClients : GWForward(p)
    \/ HCStart
    \/ TickerFire
    \/ HCBeginRound
    \/ HCSpawn
    \/ \E b \in Backends : \E outcome \in ProbeOutcomes : ProbeDo(b, outcome)
    \/ \E b \in Backends : ProbeSet(b)
    \/ HCJoin

SpecRecover == GatewayInit /\ [][RecoverNext]_vars

\* ------------------------------------------------------- Channel patterns

\* Go's int arithmetic: results wrap around in two's complement.
Wrap(x) == ((x + 2^(IntBits - 1)) % 2^IntBits) - 2^(IntBits - 1)

\* What stage s sends for a value n it received: square n * n, addOne n + 1,
\* filterEven n itself when n%2 == 0. <<>> when it sends nothing.
StageOutUnfiltered(s, n) ==
    CASE s = 2 -> <<Wrap(n * n)>>
      [] s = 3 -> <<Wrap(n + 1)>>
      [] OTHER -> <<n>>
StageOut(s, n) ==
    CASE s = 2 -> <<Wrap(n * n)>>
      [] s = 3 -> <<Wrap(n + 1)>>
      [] OTHER -> IF n % 2 = 0 THEN <<n>> ELSE <<>>

\* DemoWorkerPool: jobs and results are channels buffered for numJobs values,
\* the workers, the sender and the closer of results are started, main
\* ranges over results (got, what it has received so far); by is a ghost,
\* the workers that have taken each job.
\* fanIn(ch1, ch2, ...): each unbuffered input channel has a producer that
\* sends its values (rest, those not sent yet) and closes it, and a
\* forwarding goroutine (fw); the caller ranges over merged (got).
\* DemoPipeline: generator(numbers), square, addOne and filterEven are
\* started, each with its unbuffered output channel; main ranges over the
\* last one. Stage 1 is the generator, channel c the output of stage c.
\* FanOutFanIn ("fanout"): the sender feeds input (Execute's 1..NumJobs,
\* input[i] = i + 1 for i from 0) over the unbuffered
\* inputChan to the squareWorkers, one per channel handed to FanIn; src[c] is worker c's unbuffered
\* output (rest, the value it is sending; closed), fw[c] FanIn's goroutine
\* for it; the caller ranges over merged (got, done).
\* Pipeline.BuildPipeline and WorkerPool.ProcessJobs start the goroutines of
\* "pipeline" and "workerpool", and take a context.
\* One demo runs at a time; no limiter and no gateway is running.
PatternsInit(demo) ==
    /\ now = 0
    /\ heap = [i \in BucketIds |-> FreeSlot]
    /\ g = <<>>
    /\ fresh = FALSE
    /\ allowed = 0
    /\ denied = 0
    /\ buckets = [k \in Keys |-> NoBucket]
    /\ lmu = [w |-> NoProc, r |-> {}]
    /\ lastCleanup = 0
    /\ ops = 0
    /\ admits = [k \in Keys |-> 0]
    /\ seen = [keys |-> {}, reset |-> FALSE, picks |-> <<>>, granted |-> 0,
               negative |-> FALSE]
    /\ GatewayIdle
    /\ IF demo = "pipeline"
          THEN \E numbers \in UNION {[1..n -> (-MaxValue)..MaxValue] :
                                        n \in 0..MaxInput} :
                  pl = [numbers |-> numbers, idx |-> 0,
                        st |-> [s \in 1..4 |->
                                   [pc |-> IF s = 1 THEN "loop" ELSE "recv", n |-> 0]],
                        closed |-> [c \in 1..4 |-> FALSE],
                        out |-> <<>>, done |-> FALSE]
          ELSE pl = <<>>
    /\ IF demo = "workerpool"
          THEN wp = [sent |-> 0, jobs |-> <<>>, jobsClosed |-> FALSE,
                     w |-> [i \in 1..NumWorkers |-> [pc |-> "recv", job |-> 0]],
                     results |-> <<>>, resultsClosed |-> FALSE,
                     got |-> <<>>, done |-> FALSE,
                     by |-> [j \in 1..NumJobs |-> {}]]
          ELSE wp = <<>>
    /\ IF demo = "fanin"
          THEN fi = [src |-> [c \in 1..NumChans |->
                                [rest |-> [k \in 1..PerChan |-> (c - 1) * PerChan + k],
                                 closed |-> FALSE]],
                     fw |-> [c \in 1..NumChans |-> [pc |-> "recv", val |-> 0]],
                     mergedClosed |-> FALSE, got |-> <<>>]
          ELSE IF demo = "fanout"
          THEN \E n \in 0..MaxInput :
                  fi = [input |-> [i \in 1..n |-> i], idx |-> 0, inputClosed |-> FALSE,
                        src |-> [c \in 1..NumChans |->
                                   [rest |-> <<>>, closed |-> FALSE]],
                        fw |-> [c \in 1..NumChans |-> [pc |-> "recv", val |-> 0]],
                        mergedClosed |-> FALSE, got |-> <<>>, done |-> FALSE]
          ELSE fi = <<>>

\* generator: the next iteration of for _, n := range numbers, up to its
\* send; or the end of the loop and the deferred close(out).
PLGenerate ==
    /\ pl.st[1].pc = "loop"
    /\ IF pl.idx < Len(pl.numbers)
          THEN pl' = [pl EXCEPT !.idx = @ + 1,
                                !.st[1] = [pc |-> "send", n |-> pl.numbers[pl.idx + 1]]]
          ELSE pl' = [pl EXCEPT !.st[1].pc = "exit", !.closed[1] = TRUE]
    /\ UNCHANGED <<now, heap, g, tally, lvars, admits, seen, gwvars, wp, fi>>

\* A send on the unbuffered channel c meets its receiver: stage c goes on
\* with its loop; the receiving stage computes what it sends next, and main
\* (the receiver of channel 4) appends the value to its results.
PLTransfer(c) ==
    /\ pl.st[c].pc = "send"
    /\ LET n == pl.st[c].n
           back == [pc |-> IF c = 1 THEN "loop" ELSE "recv", n |-> 0]
       IN  IF c = 4
              THEN /\ ~pl.done
                   /\ pl' = [pl EXCEPT !.st[c] = back, !.out = Append(@, n)]
              ELSE /\ pl.st[c + 1].pc = "recv"
                   /\ pl' = [pl EXCEPT
                               !.st[c] = back,
                               !.st[c + 1] =
                                   IF StageOut(c + 1, n) = <<>>
                                      THEN [pc |-> "recv", n |-> 0]
                                      ELSE [pc |-> "send", n |-> StageOut(c + 1, n)[1]]]
    /\ UNCHANGED <<now, heap, g, tally, lvars, admits, seen, gwvars, wp, fi>>

\* for n := range input ends when the input channel is closed: stage s
\* returns and its deferred close(out) runs; main's loop ends (s = 5).
PLClose(s) ==
    /\ pl.closed[s - 1]
    /\ IF s = 5
          THEN ~pl.done /\ pl' = [pl EXCEPT !.done = TRUE]
          ELSE /\ pl.st[s].pc = "recv"
               /\ pl' = [pl EXCEPT !.st[s].pc = "exit", !.closed[s] = TRUE]
    /\ UNCHANGED <<now, heap, g, tally, lvars, admits, seen, gwvars, wp, fi>>

PipelineNext ==
    \/ PLGenerate
    \/ \E c \in 1..4 : PLTransfer(c)
    \/ \E s \in 2..5 : PLClose(s)

SpecPipeline == PatternsInit("pipeline") /\ [][PipelineNext]_vars

\* The sender: jobs <- j for j = 1..numJobs, then close(jobs).
WPSend ==
    /\ ~wp.jobsClosed
    /\ IF wp.sent < NumJobs
          THEN /\ Len(wp.jobs) < NumJobs
               /\ wp' = [wp EXCEPT !.sent = @ + 1, !.jobs = Append(@, wp.sent + 1)]
          ELSE wp' = [wp EXCEPT !.jobsClosed = TRUE]
    /\ UNCHANGED <<now, heap, g, tally, lvars, admits, seen, gwvars, pl, fi>>

\* worker: for job := range jobs receives the next job, or ends when jobs is
\* closed and empty, and the deferred wg.Done() runs.
WPTake(i) ==
    /\ wp.w[i].pc = "recv"
    /\ IF wp.jobs # <<>>
          THEN wp' = [wp EXCEPT !.jobs = Tail(@),
                                !.w[i] = [pc |-> "work", job |-> Head(wp.jobs)],
                                !.by[Head(wp.jobs)] = @ \cup {i}]
          ELSE /\ wp.jobsClosed
               /\ wp' = [wp EXCEPT !.w[i].pc = "exit"]
    /\ UNCHANGED <<now, heap, g, tally, lvars, admits, seen, gwvars, pl, fi>>

\* worker: results <- job * 2
WPResult(i) ==
    /\ wp.w[i].pc = "work"
    /\ Len(wp.results) < NumJobs
    /\ wp' = [wp EXCEPT !.results = Append(@, wp.w[i].job * 2),
                        !.w[i] = [pc |-> "recv", job |-> 0]]
    /\ UNCHANGED <<now, heap, g, tally, lvars, admits, seen, gwvars, pl, fi>>

\* The closer: wg.Wait(); close(results)
WPWaitAny ==
    /\ \E i \in 1..NumWorkers : wp.w[i].pc = "exit"
    /\ ~wp.resultsClosed
    /\ wp' = [wp EXCEPT !.resultsClosed = TRUE]
    /\ UNCHANGED <<now, heap, g, tally, lvars, admits, seen, gwvars, pl, fi>>
WPWait ==
    /\ \A i \in 1..NumWorkers : wp.w[i].pc = "exit"
    /\ ~wp.resultsClosed
    /\ wp' = [wp EXCEPT !.resultsClosed = TRUE]
    /\ UNCHANGED <<now, heap, g, tally, lvars, admits, seen, gwvars, pl, fi>>

\* main: for result := range results receives the next result, or ends when
\* results is closed and empty.
WPCollect ==
    /\ ~wp.done
    /\ IF wp.results # <<>>
          THEN wp' = [wp EXCEPT !.results = Tail(@), !.got = Append(@, Head(wp.results))]
          ELSE /\ wp.resultsClosed
               /\ wp' = [wp EXCEPT !.done = TRUE]
    /\ UNCHANGED <<now, heap, g, tally, lvars, admits, seen, gwvars, pl, fi>>

WorkerPoolNext ==
    \/ WPSend
    \/ \E i \in 1..NumWorkers : WPTake(i)
    \/ \E i \in 1..NumWorkers : WPResult(i)
    \/ WPWait
    \/ WPCollect

SpecWorkerPool == PatternsInit("workerpool") /\ [][WorkerPoolNext]_vars

\* A producer has sent its last value: close(ch).
FIClose(c) ==
    /\ fi.src[c].rest = <<>>
    /\ ~fi.src[c].closed
    /\ fi' = [fi EXCEPT !.src[c].closed = TRUE]
    /\ UNCHANGED <<now, heap, g, tally, lvars, admits, seen, gwvars, pl, wp>>

\* fanIn's goroutine for channel c: for val := range c receives the
\* producer's next send, or ends when c is closed, and the deferred wg.Done()
\* runs.
FIRecv(c) ==
    /\ fi.fw[c].pc = "recv"
    /\ IF fi.src[c].rest # <<>>
          THEN fi' = [fi EXCEPT !.src[c].rest = Tail(@),
                                !.fw[c] = [pc |-> "send", val |-> Head(fi.src[c].rest)]]
          ELSE /\ fi.src[c].closed
               /\ fi' = [fi EXCEPT !.fw[c].pc = "exit"]
    /\ UNCHANGED <<now, heap, g, tally, lvars, admits, seen, gwvars, pl, wp>>

\* merged <- val meets the caller's receive.
FIMerge(c) ==
    /\ fi.fw[c].pc = "send"
    /\ fi' = [fi EXCEPT !.got = Append(@, fi.fw[c].val),
                        !.fw[c] = [pc |-> "recv", val |-> 0]]
    /\ UNCHANGED <<now, heap, g, tally, lvars, admits, seen, gwvars, pl, wp>>

\* wg.Wait(); close(merged)
FIWaitAny ==
    /\ \E c \in 1..NumChans : fi.fw[c].pc = "exit"
    /\ ~fi.mergedClosed
    /\ fi' = [fi EXCEPT !.mergedClosed = TRUE]
    /\ UNCHANGED <<now, heap, g, tally, lvars, admits, seen, gwvars, pl, wp>>
FIWait ==
    /\ \A c \in 1..NumChans : fi.fw[c].pc = "exit"
    /\ ~fi.mergedClosed
    /\ fi' = [fi EXCEPT !.mergedClosed = TRUE]
    /\ UNCHANGED <<now, heap, g, tally, lvars, admits, seen, gwvars, pl, wp>>

FanInNext ==
    \/ \E c \in 1..NumChans : FIClose(c)
    \/ \E c \in 1..NumChans : FIRecv(c)
    \/ \E c \in 1..NumChans : FIMerge(c)
    \/ FIWait

SpecFanIn == PatternsInit("fanin") /\ [][FanInNext]_vars

\* ------------------------------------------- Context-aware pattern executors

\* The caller's context is cancelled: ctx.Done() is closed.
CtxCancel ==
    /\ ~cancelled
    /\ cancelled' = TRUE
    /\ UNCHANGED <<now, patvars, heap, g, tally, lvars, admits, seen, stats, rtvars,
                   alive, current, rmu, rq, lastSel, hc, tickReady, probe>>

\* Pipeline: a stage's send meets its receiver, as in PLTransfer (a select
\* with both cases ready takes either); filterEven first polls ctx.Done()
\* for the value it received, and returns, closing its output.
BPTransfer(c) ==
    IF c = 3 /\ cancelled
       THEN /\ pl.st[3].pc = "send"
            /\ pl.st[4].pc = "recv"
            /\ pl' = [pl EXCEPT !.st[3] = [pc |-> "recv", n |-> 0],
                                !.st[4].pc = "exit", !.closed[4] = TRUE]
            /\ UNCHANGED <<now, heap, g, tally, lvars, admits, seen, gwvars, wp, fi>>
       ELSE PLTransfer(c)

\* generator, square, addOne: case <-ctx.Done(): return, and the deferred
\* close(out).
BPReturnOpen(s) ==
    /\ cancelled
    /\ pl.st[s].pc = "send"
    /\ pl' = [pl EXCEPT !.st[s] = [pc |-> "exit", n |-> 0]]
    /\ UNCHANGED <<now, heap, g, tally, lvars, admits, seen, gwvars, wp, fi>>
BPReturn(s) ==
    /\ cancelled
    /\ pl.st[s].pc = "send"
    /\ pl' = [pl EXCEPT !.st[s] = [pc |-> "exit", n |-> 0], !.closed[s] = TRUE]
    /\ UNCHANGED <<now, heap, g, tally, lvars, admits, seen, gwvars, wp, fi>>

\* ProcessJobs' sender: jobsChan <- job (buffered for len(jobs), never
\* full) or, once the context is cancelled, close(jobsChan) and return;
\* close(jobsChan) after the last job.
PJSend ==
    \/ WPSend
    \/ /\ cancelled
       /\ ~wp.jobsClosed
       /\ wp.sent < NumJobs
       /\ wp' = [wp EXCEPT !.jobsClosed = TRUE]
       /\ UNCHANGED <<now, heap, g, tally, lvars, admits, seen, gwvars, pl, fi>>

\* worker: for job := range jobs receives a job; with the context cancelled
\* it returns (wg.Done()), else it processes the job as in WPTake.
PJTake(i) ==
    IF cancelled /\ wp.jobs # <<>>
       THEN /\ wp.w[i].pc = "recv"
            /\ wp' = [wp EXCEPT !.jobs = Tail(@), !.w[i].pc = "exit"]
            /\ UNCHANGED <<now, heap, g, tally, lvars, admits, seen, gwvars, pl, fi>>
       ELSE WPTake(i)

\* FanOut's sender: inputChan <- num meets the receive of squareWorker w,
\* which goes on to send num * num.
FOSend(w) ==
    /\ ~fi.inputClosed
    /\ fi.idx < Len(fi.input)
    /\ fi.src[w].rest = <<>>
    /\ ~fi.src[w].closed
    /\ LET num == fi.input[fi.idx + 1]
       IN  fi' = [fi EXCEPT !.idx = @ + 1, !.src[w].rest = <<Wrap(num * num)>>]
    /\ UNCHANGED <<now, heap, g, tally, lvars, admits, seen, gwvars, pl, wp>>

\* FanOut's sender returns, at the end of input or on ctx.Done(), and the
\* deferred close(inputChan) runs.
FOReturn ==
    /\ ~fi.inputClosed
    /\ fi.idx = Len(fi.input) \/ cancelled
    /\ fi' = [fi EXCEPT !.inputClosed = TRUE]
    /\ UNCHANGED <<now, heap, g, tally, lvars, admits, seen, gwvars, pl, wp>>

\* squareWorker returns, when inputChan is closed or on ctx.Done() in its
\* select, and the deferred close(output) runs.
SquareReturn(w) ==
    /\ ~fi.src[w].closed
    /\ IF fi.src[w].rest = <<>> THEN fi.inputClosed ELSE cancelled
    /\ fi' = [fi EXCEPT !.src[w] = [rest |-> <<>>, closed |-> TRUE]]
    /\ UNCHANGED <<now, heap, g, tally, lvars, admits, seen, gwvars, pl, wp>>

\* FanIn's goroutine for channel c: case <-ctx.Done(): return, and the
\* deferred wg.Done() runs.
FwReturn(c) ==
    /\ cancelled
    /\ fi.fw[c].pc = "send"
    /\ fi' = [fi EXCEPT !.fw[c] = [pc |-> "exit", val |-> 0]]
    /\ UNCHANGED <<now, heap, g, tally, lvars, admits, seen, gwvars, pl, wp>>

\* Execute: for result := range resultChan ends when merged is closed.
FIDone ==
    /\ fi.mergedClosed
    /\ ~fi.done
    /\ fi' = [fi EXCEPT !.done = TRUE]
    /\ UNCHANGED <<now, heap, g, tally, lvars, admits, seen, gwvars, pl, wp>>

ExecutorsNext ==
    \/ CtxCancel
    \/ pl # <<>> /\ PLGenerate
    \/ pl # <<>> /\ \E c \in 1..4 : BPTransfer(c)
    \/ pl # <<>> /\ \E s \in 1..3 : BPReturn(s)
    \/ pl # <<>> /\ \E s \in 2..5 : PLClose(s)
    \/ wp # <<>> /\ PJSend
    \/ wp # <<>> /\ \E i \in 1..NumWorkers : PJTake(i)
    \/ wp # <<>> /\ \E i \in 1..NumWorkers : WPResult(i)
    \/ wp # <<>> /\ WPWait
    \/ wp # <<>> /\ WPCollect
    \/ fi # <<>> /\ \E w \in 1..NumChans : FOSend(w)
    \/ fi # <<>> /\ FOReturn
    \/ fi # <<>> /\ \E w \in 1..NumChans : SquareReturn(w)
    \/ fi # <<>> /\ \E c \in 1..NumChans : FIRecv(c)
    \/ fi # <<>> /\ \E c \in 1..NumChans : FIMerge(c)
    \/ fi # <<>> /\ \E c \in 1..NumChans : FwReturn(c)
    \/ fi # <<>> /\ FIWait
    \/ fi # <<>> /\ FIDone

\* Every goroutine that can take a step takes one, and the caller keeps
\* receiving from the output channel.
SpecExecutors ==
    /\ \E demo \in {"pipeline", "workerpool", "fanout"} : PatternsInit(demo)
    /\ [][ExecutorsNext]_vars
    /\ WF_vars(pl # <<>> /\ PLGenerate)
    /\ \A c \in 1..4 : WF_vars(pl # <<>> /\ BPTransfer(c))
    /\ \A s \in 1..3 : WF_vars(pl # <<>> /\ BPReturn(s))
    /\ \A s \in 2..5 : WF_vars(pl # <<>> /\ PLClose(s))
    /\ WF_vars(wp # <<>> /\ PJSend)
    /\ \A i \in 1..NumWorkers : WF_vars(wp # <<>> /\ (PJTake(i) \/ WPResult(i)))
    /\ WF_vars(wp # <<>> /\ WPWait)
    /\ WF_vars(wp # <<>> /\ WPCollect)
    /\ WF_vars(fi # <<>> /\ (FOReturn \/ \E w \in 1..NumChans : FOSend(w)))
    /\ \A w \in 1..NumChans : WF_vars(fi # <<>> /\ SquareReturn(w))
    /\ \A c \in 1..NumChans :
           WF_vars(fi # <<>> /\ (FIRecv(c) \/ FIMerge(c) \/ FwReturn(c)))
    /\ WF_vars(fi # <<>> /\ (FIWait \/ FIDone))

\* ------------------------------------------------------------ Lock order

\* The lock and unlock calls of each operation, in the order its code makes
\* them. gmu is Gateway.mu, rmu a Route.mu, bmu a Backend.mu, lmu Limiter.mu,
\* tmu a TokenBucket.mu; one route, backend and bucket stand for all, since
\* no operation holds two of a kind.
\* Allow / AllowN: getBucket finds the bucket on its fast path, or creates
\* it under the write lock, where cleanupIfNeeded calls bucket.Available();
\* then bucket.Allow(). Request: the middleware's Allow, handleRequest's
\* lookup, NextBackend with backend.IsAlive(). HealthCheck: healthCheckAll
\* copies the routes, then SetAlive.
LockPlanBucketFirst ==
    [op \in {"Allow", "AllowNew", "Reset", "ResetAll", "LimiterStats", "Stats",
             "AddRoute", "Request", "HealthCheck"} |->
        IF op = "Allow"
           THEN << <<"Lock", "tmu">>, <<"RLock", "lmu">>, <<"RUnlock", "lmu">>,
                   <<"Unlock", "tmu">> >>
           ELSE << <<"Lock", "lmu">>, <<"Lock", "tmu">>, <<"Unlock", "tmu">>,
                   <<"Unlock", "lmu">> >>]
LockPlan ==
    [Allow        |-> << <<"RLock", "lmu">>, <<"RUnlock", "lmu">>,
                         <<"Lock", "tmu">>, <<"Unlock", "tmu">> >>,
     AllowNew     |-> << <<"RLock", "lmu">>, <<"RUnlock", "lmu">>,
                         <<"Lock", "lmu">>,
                         <<"Lock", "tmu">>, <<"Unlock", "tmu">>,
                         <<"Unlock", "lmu">>,
                         <<"Lock", "tmu">>, <<"Unlock", "tmu">> >>,
     Reset        |-> << <<"Lock", "lmu">>, <<"Unlock", "lmu">> >>,
     ResetAll     |-> << <<"Lock", "lmu">>, <<"Unlock", "lmu">> >>,
     LimiterStats |-> << <<"RLock", "lmu">>, <<"RUnlock", "lmu">> >>,
     Stats        |-> << <<"RLock", "gmu">>,
                         <<"RLock", "bmu">>, <<"RUnlock", "bmu">>,
                         <<"RLock", "lmu">>, <<"RUnlock", "lmu">>,
                         <<"RUnlock", "gmu">> >>,
     AddRoute     |-> << <<"Lock", "gmu">>, <<"Unlock", "gmu">> >>,
     Request      |-> << <<"RLock", "lmu">>, <<"RUnlock", "lmu">>,
                         <<"Lock", "tmu">>, <<"Unlock", "tmu">>,
                         <<"RLock", "gmu">>, <<"RUnlock", "gmu">>,
                         <<"Lock", "rmu">>,
                         <<"RLock", "bmu">>, <<"RUnlock", "bmu">>,
                         <<"Unlock", "rmu">> >>,
     HealthCheck  |-> << <<"RLock", "gmu">>, <<"RUnlock", "gmu">>,
                         <<"Lock", "bmu">>, <<"Unlock", "bmu">> >>]

\* The locks goroutine p holds, as <<call, lock>>: those it has acquired and
\* not released among the calls it has made (g[p].at is its next call).
LocksHeld(p) ==
    IF g[p].pc = "idle"
       THEN {}
       ELSE LET made == SubSeq(LockPlan[g[p].op], 1, g[p].at - 1)
            IN  {made[i] : i \in {j \in 1..Len(made) :
                                    /\ made[j][1] \in {"Lock", "RLock"}
                                    /\ \A k \in (j + 1)..Len(made) :
                                           made[k][2] # made[j][2]}}

\* A goroutine starts an operation, or makes its next lock call and runs on
\* to the one after it (returning after the last). Lock() waits until nobody
\* holds the lock; RLock() waits while a writer holds the lock or has called
\* Lock() (sync.RWMutex lets no new reader pass a waiting writer).
LockStep(p) ==
    /\ IF g[p].pc = "idle"
          THEN \E op \in DOMAIN LockPlan :
                  g' = [g EXCEPT ![p] = [pc |-> "locks", op |-> op, at |-> 1]]
          ELSE LET plan == LockPlan[g[p].op]
                   call == plan[g[p].at]
                   others == Goroutines \ {p}
               IN  /\ call[1] = "Lock" =>
                          \A q \in others : \A h \in LocksHeld(q) : h[2] # call[2]
                   /\ call[1] = "RLock" =>
                          \A q \in others :
                              /\ <<"Lock", call[2]>> \notin LocksHeld(q)
                              /\ ~(g[q].pc = "locks" /\
                                   LockPlan[g[q].op][g[q].at] = <<"Lock", call[2]>>)
                   /\ g' = [g EXCEPT ![p] = IF g[p].at = Len(plan)
                                               THEN Idle
                                               ELSE [@ EXCEPT !.at = @ + 1]]
    /\ UNCHANGED <<now, patvars, heap, tally, lvars, admits, seen, gwvars>>

LocksNext == \E p \in Goroutines : LockStep(p)

SpecLocks == LimiterInit /\ [][LocksNext]_vars

\* --------------------------------------------------- TokenBucket properties

Quiescent == \A p \in DOMAIN g : ~InFlight(p)

\* C2: on a fresh bucket with no time elapsed, once N concurrent Allow() calls
\* have all returned, min(N, capacity) of them returned true; for N > capacity
\* exactly capacity returned true, N - capacity false, and Available() is 0.
C2_ExactAdmission ==
    (fresh /\ Quiescent) =>
        LET n == allowed + denied
        IN  /\ allowed = Min(n, Capacity)
            /\ n > Capacity => /\ allowed = Capacity
                               /\ denied = n - Capacity
                               /\ Refill(heap[1], now).tokens = 0

C2_Witness ==
    /\ fresh /\ Quiescent
    /\ allowed + denied > Capacity
    /\ denied > 0

\* C3: every bucket's token count stays within 0..capacity in every
\* reachable state.
C3_TokensWithinCapacity ==
    \A i \in DOMAIN heap : 0 <= heap[i].tokens /\ heap[i].tokens <= heap[i].capacity

\* C10: AllowN(n) is all-or-nothing. When it is about to return, either it
\* returns true, the refilled count was >= n and the bucket holds exactly n
\* less; or it returns false, the refilled count was < n and the bucket still
\* holds it; the count is never negative.
C10_AllowNAllOrNothing ==
    \A p \in DOMAIN g :
        (g[p].pc = "tb_unlock" /\ g[p].op = "AllowN") =>
            LET tb == heap[g[p].b]
            IN  /\ tb.tokens >= 0
                /\ IF g[p].ret
                      THEN g[p].after >= g[p].n /\ tb.tokens = g[p].after - g[p].n
                      ELSE g[p].after < g[p].n /\ tb.tokens = g[p].after

\* A refused AllowN(n) that found some tokens, but fewer than n.
C10_Witness ==
    \E p \in DOMAIN g :
        /\ g[p].pc = "tb_unlock" /\ g[p].op = "AllowN"
        /\ g[p].ret = FALSE
        /\ g[p].after > 0 /\ g[p].after < g[p].n
        /\ heap[g[p].b].tokens = g[p].after

\* C11: Allow() returns true exactly when the token count after refill is
\* > 0, and the bucket then holds one token less; when it returns false the
\* bucket holds the count that refill left.
C11_AllowDecrementsOrLeaves ==
    \A p \in DOMAIN g :
        (g[p].pc = "tb_unlock" /\ OpOf(p) = "Allow") =>
            /\ g[p].ret = (g[p].after > 0)
            /\ heap[g[p].b].tokens = IF g[p].ret THEN g[p].after - 1 ELSE g[p].after

\* An Allow() that found the bucket empty after refill and is refused.
C11_Witness ==
    \E p \in DOMAIN g :
        /\ g[p].pc = "tb_unlock" /\ OpOf(p) = "Allow"
        /\ g[p].ret = FALSE
        /\ g[p].after = 0
        /\ heap[g[p].b].tokens = 0

\* The step in which a call locks its bucket and runs refill().
Refills(p) == g[p].pc = "tb_lock" /\ g'[p].pc = "tb_check"

\* C12: the bucket created at time 0 has lastRefill a whole multiple of
\* interval and never ahead of the clock, and right after the refill of any
\* Allow / AllowN / Available call less than one interval separates lastRefill
\* from now.
C12_LastRefillWholePeriods ==
    /\ [](/\ heap[1].lastRefill % heap[1].interval = 0
          /\ heap[1].lastRefill <= now)
    /\ [][\A p \in DOMAIN g :
             Refills(p) => /\ now - heap'[g[p].b].lastRefill < heap'[g[p].b].interval
                           /\ now - heap'[g[p].b].lastRefill >= 0]_vars

\* A call has refilled at a time that is no multiple of interval: lastRefill
\* has moved by one interval and the remaining tick is kept.
C12_Witness ==
    /\ now = Interval + 1
    /\ heap[1].lastRefill = Interval
    /\ \E p \in DOMAIN g : g[p].pc = "tb_check"

\* C13: an Available() call that finds t tokens and periods whole intervals
\* elapsed since lastRefill returns min(capacity, t + periods * refillRate)
\* when periods >= 1, and t otherwise.
C13_AvailableAfterWait ==
    /\ [][\A p \in DOMAIN g :
             (Refills(p) /\ OpOf(p) = "Available") =>
                LET tb == heap[g[p].b]
                    periods == (now - tb.lastRefill) \div tb.interval
                IN  g'[p].after =
                       IF periods >= 1
                          THEN Min(tb.capacity, tb.tokens + periods * tb.refillRate)
                          ELSE tb.tokens]_vars
    /\ [](\A p \in DOMAIN g :
             (g[p].pc = "tb_unlock" /\ OpOf(p) = "Available") =>
                g[p].ret = g[p].after)

\* An Available() that returns a count raised by refill and below capacity.
C13_Witness ==
    \E p \in DOMAIN g :
        /\ g[p].pc = "tb_unlock" /\ OpOf(p) = "Available"
        /\ heap[g[p].b].lastRefill >= Interval
        /\ g[p].ret = g[p].after
        /\ g[p].ret >= 1 /\ g[p].ret < Capacity

\* ------------------------------------------------------- Limiter properties

\* C1: for any one key, the Allow(key) calls begun within one clock instant
\* (so that no refill interval elapses among them) and since the key's last
\* Reset admit at most capacity callers.
C1_NoDoubleAdmission ==
    \A k \in Keys : admits[k] <= Capacity

\* C4: two goroutines that are inside Allow/AllowN for the same key, with no
\* Reset of the key since either call began, hold the same bucket: no two
\* distinct buckets serve one key.
C4_OneBucketPerKey ==
    \A p, q \in DOMAIN g :
        (/\ g[p].key # NoKey /\ g[p].key = g[q].key
         /\ g[p].mine # NoBucket /\ g[q].mine # NoBucket
         /\ ~g[p].stale /\ ~g[q].stale)
        => g[p].mine = g[q].mine

\* C5: whenever cleanup deletes a key's bucket, that bucket's token count
\* (after refill) equals its capacity at the moment of the deletion.
C5_EvictOnlyIdle ==
    [][\A p \in DOMAIN g :
          (/\ g[p].pc = "cl_decide"
           /\ g'[p].pc = "cl_scan"
           /\ buckets[g[p].ck] # NoBucket
           /\ buckets'[g[p].ck] = NoBucket)
          => Refill(heap[g[p].b], now).tokens = heap[g[p].b].capacity]_vars

\* The keys a bucket serves: the key the map stores it under, and the keys of
\* the calls that hold a pointer to it.
KeysOf(i) ==
    {k \in Keys : buckets[k] = i} \cup
    {g[q].key : q \in {r \in DOMAIN g : g[r].mine = i}}

\* C14: a bucket's token count (as of the current time) changes only in the
\* step where an Allow/AllowN call takes tokens from the bucket of its own
\* key, a bucket that serves no other key; and a bucket created for a key
\* starts with the full capacity whatever the other keys' buckets hold.
C14_PerKeyIsolation ==
    [][/\ now' = now =>
            \A i \in BucketIds :
               (/\ heap[i] # FreeSlot /\ heap'[i] # FreeSlot
                /\ Refill(heap'[i], now).tokens # Refill(heap[i], now).tokens)
               => \E p \in DOMAIN g : /\ g[p].pc = "tb_take"
                                       /\ g'[p].pc = "tb_unlock"
                                       /\ g[p].b = i
                                       /\ g[p].ctx = "top"
                                       /\ KeysOf(i) = {g[p].key}
       /\ \A k \in Keys :
            (buckets[k] = NoBucket /\ buckets'[k] # NoBucket)
            => heap'[buckets'[k]].tokens = Capacity]_vars

\* Key 1 is exhausted, and a call on key 2 has just been granted the full
\* capacity at once.
C14_Witness ==
    /\ buckets[1] # NoBucket
    /\ heap[buckets[1]].tokens = 0
    /\ \E p \in DOMAIN g :
          /\ g[p].key = 2 /\ g[p].pc = "tb_unlock" /\ g[p].ctx = "top"
          /\ g[p].op = "AllowN" /\ g[p].n = Capacity
          /\ g[p].ret = TRUE

\* C15: a Reset(key) step removes that key's bucket from the map and leaves
\* every other key's entry and bucket as they were; a ResetAll() step leaves
\* a map for which Stats() reports total_keys = 0; and the bucket the next
\* call creates for a key that has none is full.
C15_ResetRemovesOnlyKey ==
    /\ [][/\ \A k \in Keys :
               Reset(k) =>
                  /\ buckets'[k] = NoBucket
                  /\ \A j \in Keys \ {k} :
                        /\ buckets'[j] = buckets[j]
                        /\ (buckets[j] # NoBucket =>
                               heap'[buckets[j]] = heap[buckets[j]])
          /\ ResetAll => TotalKeys(buckets') = 0]_vars
    /\ [](\A p \in DOMAIN g :
             g[p].pc = "cl_start" => /\ heap[g[p].mine].tokens = Capacity
                                     /\ buckets[g[p].key] = g[p].mine)

\* Key 1 has been reset while a call on it was in flight, and key 2 still
\* has its partly used bucket.
C15_Witness ==
    /\ now = 0
    /\ buckets[1] = NoBucket
    /\ buckets[2] # NoBucket
    /\ heap[buckets[2]].tokens < Capacity
    /\ \E p \in DOMAIN g : g[p].key = 1 /\ g[p].stale

\* C26: on a new Limiter, with no Reset or ResetAll made and before the cleanup
\* interval has elapsed, the keys in the map are keys that calls were made for,
\* and once every call has returned Stats()["total_keys"] is the number of
\* distinct keys called, admitted or not.
C26_TotalKeysCountsKeys ==
    (~seen.reset /\ now < CleanupInterval) =>
        /\ {k \in Keys : buckets[k] # NoBucket} \subseteq seen.keys
        /\ Quiescent => TotalKeys(buckets) = Cardinality(seen.keys)

\* Both keys called, three calls returned, one of them denied: key 1's
\* bucket emptied by AllowN(Capacity), key 2's bucket one Allow down.
C26_Witness ==
    /\ Quiescent /\ ~seen.reset /\ now < CleanupInterval
    /\ seen.keys = Keys /\ ops = MaxOps
    /\ TotalKeys(buckets) = NumKeys
    /\ heap[buckets[1]].tokens = 0
    /\ heap[buckets[2]].tokens = Capacity - 1

\* ------------------------------------------------------- Gateway properties

\* C6: once Gateway.Stop() has been called, no step changes a backend's alive
\* flag.
C6_NoLivenessChangeAfterStop == [][cancelled => alive' = alive]_vars

\* C7: every response the gateway has written, admitted or denied with 429,
\* carries the rate-limit headers.
C7_EveryResponseHasHeaders ==
    \A p \in Clients : rq[p].pc = "done" => AdmittedHeaders \subseteq rq[p].hdrs

\* A client's NextBackend call returns in this step.
NBReturns(p) == rq[p].pc = "nb_loop" /\ rq'[p].pc # "nb_loop"

\* C8: a backend that NextBackend returns had its alive flag true when the
\* call read it, and NextBackend returns none exactly when the call read
\* every backend of the route as dead.
C8_ReturnsOnlyAlive ==
    [][\A p \in Clients : NBReturns(p) =>
          IF rq'[p].backend # NoBackend
             THEN alive[rq'[p].backend] /\ rq[p].dead # Backends
             ELSE rq[p].dead = Backends]_vars

\* A call has returned a backend after reading another one as dead.
C8_Witness ==
    \E p \in Clients : /\ rq[p].pc = "returned"
                       /\ rq[p].backend # NoBackend
                       /\ rq[p].dead # {}
                       /\ alive[rq[p].backend]

\* The backend d places after b in the route's list, cyclically.
CyclicAfter(b, d) == ((b - 1 + d) % NumBackends) + 1

\* The first alive backend after b in cyclic list order (b itself last), if any.
NextAlive(b) ==
    IF \E d \in 1..NumBackends : alive[CyclicAfter(b, d)]
       THEN LET d == CHOOSE e \in 1..NumBackends :
                        /\ alive[CyclicAfter(b, e)]
                        /\ \A f \in 1..(e - 1) : ~alive[CyclicAfter(b, f)]
            IN  CyclicAfter(b, d)
       ELSE NoBackend

\* C9: while no alive flag has changed since the previous NextBackend call
\* returned a backend, the next call returns the alive backend that follows
\* it in the list, cyclically.
C9_RoundRobin ==
    [][\A p \in Clients : (NBReturns(p) /\ lastSel # NoBackend) =>
          rq'[p].backend = NextAlive(lastSel)]_vars

\* Two successive calls under unchanged liveness, the second wrapping around
\* the end of the list past a dead backend.
C9_Witness ==
    \E p \in Clients : /\ rq[p].pc = "returned"
                       /\ rq[p].backend # NoBackend
                       /\ rq[p].dead # {}
                       /\ lastSel = rq[p].backend
                       /\ rq[p].backend < NumBackends
                       /\ \E q \in Clients : q # p /\ rq[q].pc = "returned"
                                                   /\ rq[q].backend > rq[p].backend
                                                   /\ alive[rq[q].backend]

\* The calls handleRequest makes or has made for a request: route lookup,
\* backend selection, forwarding.
InHandler(r) == r.pc \in {"lookup", "nb_lock", "nb_loop", "forward"}

\* C18: a request is in route lookup, backend selection or forwarding, or
\* ends with a response other than the rate limiter's, only if
\* Limiter.Allow returned true for it; the step that denies a request ends it
\* with 429 and touches neither the round-robin cursor nor the route's lock,
\* and a denied request has no backend and no forwarding result.
C18_AdmissionBeforeRouting ==
    /\ [](\A p \in Clients :
             /\ InHandler(rq[p]) => rq[p].ok
             /\ (rq[p].pc = "done" /\ rq[p].body # BodyRateLimited) => rq[p].ok
             /\ (rq[p].pc = "done" /\ ~rq[p].ok) =>
                    /\ rq[p].status = StatusTooManyRequests
                    /\ rq[p].backend = NoBackend
                    /\ ~rq[p].terr)
    /\ [][\A p \in Clients :
             (rq[p].pc = "ratelimit" /\ rq'[p].pc # "ratelimit" /\ ~rq'[p].ok) =>
                /\ rq'[p].pc = "done"
                /\ current' = current
                /\ rmu' = rmu
                /\ lastSel' = lastSel]_vars

\* One client's request is denied while another's, admitted, is in backend
\* selection.
C18_Witness ==
    \E p, q \in Clients :
        /\ rq[p].pc = "done" /\ ~rq[p].ok
        /\ rq[p].status = StatusTooManyRequests
        /\ rq[q].pc = "nb_loop" /\ rq[q].ok

\* The response a finished request must carry, by the first cause that
\* applies to it.
Outcome(r) ==
    IF ~r.ok THEN <<StatusTooManyRequests, BodyRateLimited>>
    ELSE IF ~RouteExists(r.path) THEN <<StatusNotFound, BodyNotFound>>
    ELSE IF r.backend = NoBackend THEN <<StatusServiceUnavailable, BodyUnavailable>>
    ELSE IF r.terr THEN <<StatusBadGateway, BodyBadGateway>>
    ELSE <<r.status, BodyBackend>>

\* C19: a finished request has had exactly one response written, an
\* unfinished one none; the response is 429 for a denied request, 404 for a
\* path without a route, 503 when NextBackend found no alive backend, 502
\* for a transport failure, and otherwise the backend's own status and body.
C19_OneDistinctOutcome ==
    \A p \in Clients :
        /\ rq[p].pc = "done" =>
              /\ rq[p].writes = 1
              /\ <<rq[p].status, rq[p].body>> = Outcome(rq[p])
              /\ rq[p].body = BodyBackend => rq[p].status \in BackendStatuses
        /\ rq[p].pc # "done" => rq[p].writes = 0

\* A request to the routed path has ended with 503 while another ended
\* with the proxy's 502.
C19_Witness ==
    \E p, q \in Clients :
        /\ rq[p].pc = "done" /\ rq[p].ok /\ RouteExists(rq[p].path)
        /\ rq[p].status = StatusServiceUnavailable
        /\ rq[q].pc = "done" /\ rq[q].terr
        /\ rq[q].status = StatusBadGateway

\* C20: no step of request handling changes a backend's alive flag; only
\* the health check's SetAlive does.
C20_OnlyHealthCheckWritesAlive ==
    [][rq' # rq => alive' = alive]_vars

\* Forwarding to a backend has just failed, and the backend is still alive
\* as it was when it was selected.
C20_Witness ==
    \E p \in Clients :
        /\ rq[p].pc = "done" /\ rq[p].terr
        /\ alive[rq[p].backend]
        /\ lastSel = rq[p].backend

\* ------------------------------------------------- Routing table properties

\* The step in which an AddRoute call returns.
ARReturns(a) == adm[a].pc = "ar_loop" /\ adm'[a].pc = "returned"

\* Some address of the list is one that url.Parse rejects.
HasUnparseable(urls) == \E i \in 1..Len(urls) : urls[i] \in BadAddresses

\* The route a target list describes: its addresses' URLs, in order.
RouteFor(urls) ==
    [exists |-> TRUE,
     backends |-> [i \in 1..Len(urls) |-> ParseURL(urls[i]).url]]

\* C16: AddRoute returns an error exactly when some target address is
\* unparseable, and then the routing table is what it was when the call
\* began: no route installed, the path's previous route and every other
\* route untouched.
C16_AddRouteAtomicOnFailure ==
    [][\A a \in Admins :
          ARReturns(a) =>
             /\ adm'[a].err = HasUnparseable(adm[a].urls)
             /\ adm'[a].err => /\ routes' = adm[a].before
                                /\ routes' = routes]_vars

\* A call has failed on a later address after building part of a route, for
\* a path that has a route.
C16_Witness ==
    \E a \in Admins :
        /\ adm[a].pc = "returned" /\ adm[a].err
        /\ adm[a].partial /\ adm[a].replaced
        /\ \E path \in Paths : routes[path].exists

\* C17: after a successful AddRoute(path, targets) the table maps path to
\* the route of exactly those targets in that order, whatever it held for
\* the path before, and maps every other path as before; adding a route that
\* the table already holds leaves the table as it was.
C17_AddRouteReplaces ==
    [][\A a \in Admins :
          (ARReturns(a) /\ ~adm'[a].err) =>
             /\ routes' = [adm[a].before EXCEPT ![adm[a].path] = RouteFor(adm[a].urls)]
             /\ adm[a].before[adm[a].path] = RouteFor(adm[a].urls)
                   => routes' = adm[a].before]_vars

\* A call has replaced a path's route by one of two different targets.
C17_Witness ==
    \E a \in Admins :
        /\ adm[a].pc = "returned" /\ ~adm[a].err /\ adm[a].replaced
        /\ \E path \in Paths :
              /\ Len(routes[path].backends) = 2
              /\ routes[path].backends[1] # routes[path].backends[2]
              /\ \A other \in Paths \ {path} : ~routes[other].exists


\* What a request's goroutine holds: the route's cursor lock, the routing
\* table's lock, the limiter's map lock, a bucket's lock.
HoldsLock(p) ==
    \/ rmu = p
    \/ gmu.w = p \/ p \in gmu.r
    \/ lmu.w = p \/ p \in lmu.r
    \/ \E i \in BucketIds : heap[i].mu = p

C22_OneRoundAtATime ==
    /\ [](hc # "round" => \A b \in Backends : probe[b].pc = "none")
    /\ [][(hc = "round" /\ hc' # "round") =>
             \A b \in Backends : probe[b].pc = "done" /\ alive[b] = probe[b].res]_vars

\* A later round in progress, two of its probes at different points: one
\* still probing a backend that an earlier round marked dead, one finished.
C22_Witness ==
    /\ hc = "round"
    /\ \E b, c \in Backends :
          /\ probe[b].pc = "do" /\ ~alive[b]
          /\ probe[c].pc = "done"

C24_NoLockWhileBlocking ==
    /\ \A p \in Clients : rq[p].pc = "forward" => ~HoldsLock(p)
    /\ (\E b \in Backends : probe[b].pc = "do") =>
          /\ HealthChecker \notin gmu.r
          /\ WLockFree(gmu)

\* A request is being forwarded while a probe of the round is running.
C24_Witness ==
    \E p \in Clients : \E b \in Backends :
        rq[p].pc = "forward" /\ probe[b].pc = "do"


\* C25: a Stats() call changes no bucket, token count, bucket map entry,
\* route cursor, liveness flag, lock or routing-table entry; for every route
\* it reports, total_backends is the number of the route's backends and
\* alive_backends lies between 0 and total_backends; total_keys is the
\* number of keys in the limiter's map.
C25_StatsReadOnly ==
    /\ [][stats' # stats =>
             /\ UNCHANGED <<heap, buckets, lmu, lastCleanup, current, alive, rmu,
                            routes, gmu, rq>>
             /\ stats'.rate_limit.total_keys = TotalKeys(buckets)
             /\ \A path \in DOMAIN stats'.routes :
                   stats'.routes[path].alive_backends =
                       Cardinality({b \in Backends : alive[b]})]_vars
    /\ [](stats.called =>
             /\ DOMAIN stats.routes = {path \in Paths : ConfiguredRoutes[path].exists}
             /\ \A path \in DOMAIN stats.routes :
                   /\ stats.routes[path].total_backends = NumBackends
                   /\ stats.routes[path].alive_backends \in
                          0..stats.routes[path].total_backends)

\* Stats() has reported one alive backend of the route's three and one key,
\* while a request is in backend selection and the cursor has moved.
C25_Witness ==
    /\ stats.called
    /\ stats.routes[RoutedPath].alive_backends = 1
    /\ stats.rate_limit.total_keys = 1
    /\ current # 0
    /\ \E p \in Clients : rq[p].pc = "nb_loop"


\* C27: the middleware's step for a request that SkipFunc selects hands the
\* request to the next handler and leaves the limiter as it was: no token
\* taken, no bucket created; such a request is never answered by the rate
\* limiter's 429 and carries none of its headers.
C27_SkippedBypassesLimiter ==
    /\ [][\A p \in Clients :
             (rq[p].pc = "ratelimit" /\ rq[p].skip /\ rq'[p] # rq[p]) =>
                /\ rq'[p].pc = "lookup"
                /\ rq'[p].writes = 0
                /\ UNCHANGED <<heap, buckets, lastCleanup, lmu>>]_vars
    /\ [](\A p \in Clients :
             rq[p].skip =>
                /\ rq[p].status # StatusTooManyRequests
                /\ rq[p].body # BodyRateLimited
                /\ ~rq[p].ok /\ rq[p].hdrs = {})

\* A skipped request for a key has been answered by the next handler while
\* that key has no bucket and the other key's bucket is exhausted.
C27_Witness ==
    \E p \in Clients : \E k \in Keys :
        /\ rq[p].pc = "done" /\ rq[p].skip /\ rq[p].key = k
        /\ rq[p].status = StatusOK
        /\ buckets[k] = NoBucket
        /\ \E j \in Keys : buckets[j] # NoBucket /\ heap[buckets[j]].tokens = 0


\* C28: what main has collected from the pipeline is always the beginning
\* of the list of the even values n*n+1 of the input, in input order; it is
\* the whole list once the last channel is closed, which happens only after
\* every stage has returned with nothing left to send.
C28_PipelineOrderedAndComplete ==
    LET f(n) == Wrap(Wrap(n * n) + 1)
        IsEven(v) == v % 2 = 0
        expected == SelectSeq([i \in 1..Len(pl.numbers) |-> f(pl.numbers[i])], IsEven)
    IN  /\ Len(pl.out) <= Len(expected)
        /\ pl.out = SubSeq(expected, 1, Len(pl.out))
        /\ pl.closed[4] =>
              /\ pl.out = expected
              /\ \A s \in 1..4 : pl.st[s].pc = "exit" /\ pl.closed[s]
        /\ pl.done => pl.closed[4]

\* Main's loop has ended on a three-element input with a negative number,
\* an overflowing square and a value that the filter dropped: two results.
C28_Witness ==
    /\ pl.done
    /\ Len(pl.numbers) = MaxInput
    /\ Len(pl.out) = 2
    /\ \E i \in 1..Len(pl.numbers) : pl.numbers[i] < 0
    /\ \E i \in 1..Len(pl.numbers) : pl.numbers[i] * pl.numbers[i] # Wrap(pl.numbers[i] * pl.numbers[i])


\* C29: no job is taken by two workers and no job's result is produced twice;
\* results is closed only after every worker has returned, jobs being closed
\* and empty; and when main's loop has ended it has received exactly one
\* result for each of the jobs, each processed by exactly one worker.
C29_EveryJobOnce ==
    LET produced == wp.got \o wp.results
        Times(j) == Cardinality({k \in 1..Len(produced) : produced[k] = j * 2})
    IN  /\ \A j \in 1..NumJobs :
              /\ Cardinality(wp.by[j]) <= 1
              /\ Times(j) <= Cardinality(wp.by[j])
        /\ Len(produced) <= NumJobs
        /\ wp.resultsClosed =>
              /\ \A i \in 1..NumWorkers : wp.w[i].pc = "exit"
              /\ wp.jobsClosed /\ wp.jobs = <<>>
        /\ wp.done =>
              /\ wp.resultsClosed
              /\ Len(wp.got) = NumJobs
              /\ \A j \in 1..NumJobs : Times(j) = 1 /\ Cardinality(wp.by[j]) = 1

\* Main's loop has ended, every worker has processed a job, and the results
\* arrived in another order than the jobs were sent.
C29_Witness ==
    /\ wp.done
    /\ \A i \in 1..NumWorkers : \E j \in 1..NumJobs : wp.by[j] = {i}
    /\ wp.got[1] # 2


\* C30: every value of every input channel is, at any moment, in exactly one
\* place: not yet sent, held by its channel's forwarder, or received once
\* from merged; merged is closed only when every input channel is closed and
\* drained and every forwarder has returned, so that every value has then
\* been delivered exactly once.
C30_FanInExactlyOnce ==
    LET Delivered(v) == Cardinality({k \in 1..Len(fi.got) : fi.got[k] = v})
        Unsent(c, v) == Cardinality({k \in 1..Len(fi.src[c].rest) :
                                        fi.src[c].rest[k] = v})
        Held(c, v) == IF fi.fw[c].pc = "send" /\ fi.fw[c].val = v THEN 1 ELSE 0
    IN  /\ \A c \in 1..NumChans : \A k \in 1..PerChan :
              LET v == (c - 1) * PerChan + k
              IN  Unsent(c, v) + Held(c, v) + Delivered(v) = 1
        /\ Len(fi.got) <= NumChans * PerChan
        /\ fi.mergedClosed =>
              /\ \A c \in 1..NumChans :
                    /\ fi.src[c].closed /\ fi.src[c].rest = <<>>
                    /\ fi.fw[c].pc = "exit"
              /\ Len(fi.got) = NumChans * PerChan

\* merged is closed after the caller received the channels' values
\* interleaved: first one of channel 2, then one of channel 1.
C30_Witness ==
    /\ fi.mergedClosed
    /\ fi.got[1] > PerChan
    /\ fi.got[2] <= PerChan


\* C31: the cursor is always an index of the backend list; it moves only in a
\* step of the one NextBackend call that holds the route's lock, by one place
\* cyclically; and among the selections made while every backend is alive,
\* any k * NumBackends consecutive ones contain every backend exactly k times.
C31_CursorAtomic ==
    /\ [](/\ current \in 0..(NumBackends - 1)
          /\ \A p, q \in Clients :
                (rq[p].pc = "nb_loop" /\ rq[q].pc = "nb_loop") => (p = q /\ rmu = p)
          /\ \A k \in 1..MaxRounds : \A i \in 1..Len(seen.picks) :
                (i + k * NumBackends - 1 <= Len(seen.picks)) =>
                   \A b \in Backends :
                      Cardinality({j \in i..(i + k * NumBackends - 1) :
                                      seen.picks[j] = b}) = k)
    /\ [][current' # current =>
             /\ current' = (current + 1) % NumBackends
             /\ \E p \in Clients : rmu = p /\ rq[p].pc = "nb_loop"]_vars

\* Two callers have made MaxRounds * NumBackends selections between them,
\* beginning in the middle of the list, and each holds a different backend.
C31_Witness ==
    /\ Len(seen.picks) = MaxRounds * NumBackends
    /\ seen.picks[1] # 1
    /\ \E p, q \in Clients :
          /\ rq[p].pc = "returned" /\ rq[q].pc = "returned"
          /\ rq[p].backend # NoBackend /\ rq[q].backend # NoBackend
          /\ rq[p].backend # rq[q].backend


\* C32: when a round ends, every backend's flag is the verdict of its probe
\* in that round; a dead backend becomes alive only by the SetAlive of a
\* probe that succeeded, and a backend that NextBackend returns is alive when
\* the call reads it, a revived one included.
C32_FlagFollowsProbe ==
    [][/\ (hc = "round" /\ hc' = "select") =>
             \A b \in Backends : probe[b].pc = "done" /\ alive[b] = probe[b].res
       /\ \A b \in Backends :
             /\ (~alive[b] /\ alive'[b]) => (ProbeSet(b) /\ probe[b].res)
             /\ ProbeSet(b) => alive'[b] = probe[b].res
       /\ \A p \in Clients :
             (NBReturns(p) /\ rq'[p].backend # NoBackend) => alive[rq'[p].backend]]_vars

\* A request answered 503 has been sent again and answered with the 200 of a
\* backend that a round's probe revived, the round over and another backend
\* still dead.
C32_Witness ==
    \E p \in Clients :
        /\ rq[p].retry /\ rq[p].pc = "done"
        /\ rq[p].status = StatusOK /\ rq[p].body = BodyBackend
        /\ alive[rq[p].backend]
        /\ hc = "select"
        /\ \E c \in Backends : ~alive[c]


\* C33: a call enters cleanupIfNeeded only from the step in which it stored
\* a new bucket for its key, holding the map's write lock; the scan starts
\* only when now - lastCleanup >= cleanupInterval, over every key of the map;
\* each scanned bucket is deleted exactly when Available() returned its
\* capacity; lastCleanup changes only at the end of a scan, to the time the
\* scan read when it started. A call that finds its key's bucket never
\* enters cleanupIfNeeded.
C33_CleanupOnlyOnCreation ==
    [][/\ \A p \in DOMAIN g :
             /\ (g[p].pc # "cl_start" /\ g'[p].pc = "cl_start") =>
                    /\ g[p].pc = "gb_create" /\ lmu.w = p
                    /\ buckets[g[p].key] = NoBucket
                    /\ buckets'[g[p].key] # NoBucket
             /\ (g[p].pc \in {"gb_read", "gb_create"} /\ buckets[g[p].key] # NoBucket) =>
                    g'[p].pc \in {g[p].pc, "tb_lock"}
             /\ (g[p].pc = "cl_start" /\ g'[p].pc # "cl_start") =>
                    IF now - lastCleanup >= CleanupInterval
                       THEN /\ g'[p].pc = "cl_scan" /\ g'[p].cnow = now
                            /\ g'[p].todo = {k \in Keys : buckets[k] # NoBucket}
                       ELSE g'[p].pc = "tb_lock" /\ g'[p].ctx = "top"
             /\ (g[p].pc = "cl_decide" /\ g'[p].pc # "cl_decide") =>
                    /\ lmu.w = p
                    /\ buckets' = IF g[p].ret = heap[buckets[g[p].ck]].capacity
                                     THEN [buckets EXCEPT ![g[p].ck] = NoBucket]
                                     ELSE buckets
             /\ g'[p].pc \in {"cl_start", "cl_scan", "cl_decide"} => lmu'.w = p
       /\ lastCleanup' # lastCleanup =>
             \E p \in DOMAIN g :
                /\ g[p].pc = "cl_scan" /\ g[p].todo = {} /\ lmu.w = p
                /\ lastCleanup' = g[p].cnow /\ g[p].cnow <= now
                /\ g[p].cnow - lastCleanup >= CleanupInterval
       /\ (\E k \in Keys : buckets[k] # NoBucket /\ buckets'[k] = NoBucket) =>
             \/ \E p \in DOMAIN g : g[p].pc = "cl_decide" /\ g'[p].pc = "cl_scan"
             \/ \E k \in Keys : Reset(k)
             \/ ResetAll]_vars

\* A scan has ended and set lastCleanup: it kept key 1's bucket, which was
\* below capacity, and deleted key 2's full one.
C33_Witness ==
    /\ lastCleanup = CleanupInterval
    /\ buckets[1] # NoBucket /\ heap[buckets[1]].tokens < Capacity
    /\ buckets[2] = NoBucket /\ 2 \in seen.keys
    /\ ~seen.reset


\* C34: with no Reset or ResetAll made, the bucket that getBucket returns to
\* an Allow/AllowN(key) call is, at that moment, the bucket that the map
\* holds under key, also when the call created it and ran the cleanup.
C34_OperatesOnMappedBucket ==
    [][\A p \in DOMAIN g :
          (/\ ~seen'.reset
           /\ g[p].pc \in {"gb_read", "gb_create", "cl_start", "cl_scan"}
           /\ g'[p].pc = "tb_lock" /\ g'[p].ctx = "top")
          => buckets'[g[p].key] = g'[p].mine]_vars


\* C35: as long as no call has passed a negative n, the tokens granted by the
\* admitted Allow() and AllowN(n) calls on the bucket created at time 0 never
\* exceed capacity + refillRate * floor(now / interval).
C35_RateBound ==
    ~seen.negative =>
        seen.granted <= Capacity + RefillRate * (now \div Interval)

\* Concurrent callers have drawn everything the bucket could grant by the
\* end of the run, over two refill periods, and the bucket is empty.
C35_Witness ==
    /\ ~seen.negative /\ Quiescent
    /\ now = MaxTime
    /\ now \div Interval >= 2
    /\ seen.granted = Capacity + RefillRate * (now \div Interval)
    /\ heap[1].tokens = 0


\* C37: once the context is cancelled, a running health-check loop exits in
\* the end, wherever Stop found it: in its select, with or without a tick
\* pending, or inside a round; a loop started after Stop exits too; and a
\* cancelled context stays cancelled, so a second Stop changes nothing.
C37_LoopExitsAfterStop ==
    /\ (cancelled /\ hc # "off") ~> (hc = "exited")
    /\ [](hc = "exited" => cancelled)
    /\ [][cancelled => cancelled']_vars
    /\ [][hc = "exited" => hc' = "exited"]_vars

\* The loop has exited after a Stop that came during a round: the round's
\* probes failed on the cancelled context and marked every backend dead.
C37_Witness ==
    /\ hc = "exited" /\ cancelled
    /\ \A b \in Backends : ~alive[b] /\ probe[b].pc = "none"


C39_NoneLeavesCursor ==
    /\ [][\A p \in Clients :
             (NBReturns(p) /\ rq'[p].backend = NoBackend) =>
                /\ rq[p].i = RouteLen(rq[p])
                /\ current' = rq[p].from
                /\ rmu = p /\ rmu' = NoProc
                /\ rq'[p].pc = "done"
                /\ rq'[p].status = StatusServiceUnavailable
                /\ rq'[p].body = BodyUnavailable]_vars
    /\ [](routes[RoutedPath] = EmptyRoute =>
             /\ current = 0
             /\ \A p \in Clients :
                   /\ rq[p].backend = NoBackend /\ rq[p].i = 0
                   /\ rq[p].pc # "forward"
                   /\ (rq[p].pc = "done" /\ rq[p].ok /\ rq[p].path = RoutedPath) =>
                          /\ rq[p].status = StatusServiceUnavailable
                          /\ rq[p].writes = 1)

\* A request for the path whose route has no backend has been answered 503
\* while another client's call is inside NextBackend on that route.
C39_Witness ==
    \E p, q \in Clients :
        /\ rq[p].pc = "done" /\ rq[p].ok
        /\ rq[p].path = RoutedPath /\ RouteExists(rq[p].path)
        /\ RouteLen(rq[p]) = 0
        /\ rq[p].status = StatusServiceUnavailable
        /\ rq[q].pc = "nb_loop" /\ rq[q].path = RoutedPath


\* C40: in Pipeline.BuildPipeline, FanOut/FanIn and ProcessJobs, once the
\* context is cancelled and the caller keeps draining the output, every
\* stage, worker, forwarder and sender goroutine returns, the output channel
\* is closed and the collecting loop ends.
ExecutorDone ==
    /\ pl # <<>> =>
           /\ \A s \in 1..4 : pl.st[s].pc = "exit"
           /\ pl.closed[4]
           /\ pl.done
    /\ wp # <<>> =>
           /\ wp.jobsClosed
           /\ \A i \in 1..NumWorkers : wp.w[i].pc = "exit"
           /\ wp.resultsClosed
           /\ wp.done
    /\ fi # <<>> =>
           /\ fi.inputClosed
           /\ \A c \in 1..NumChans : fi.src[c].closed /\ fi.fw[c].pc = "exit"
           /\ fi.mergedClosed
           /\ fi.done
C40_CancelTerminates == cancelled ~> ExecutorDone
C40_Witness ==
    /\ cancelled
    /\ ExecutorDone
    /\ pl # <<>>
    /\ pl.idx < Len(pl.numbers)
    /\ Len(pl.out) > 0


\* C36: locks are acquired in an acyclic order (routing table, then route
\* cursor, then backend liveness; limiter map, then bucket), and no
\* interleaving of Allow/AllowN, Reset, ResetAll, Stats, AddRoute, request
\* handling and health checking reaches a state where the callers in flight
\* all wait for a lock.
LockRank(lock) ==
    CASE lock = "gmu" -> 1
      [] lock \in {"rmu", "lmu"} -> 2
      [] OTHER -> 3
C36_DeadlockFree ==
    /\ \A p \in Goroutines :
           InFlight(p) /\ LockPlan[g[p].op][g[p].at][1] \in {"Lock", "RLock"} =>
               \A h \in LocksHeld(p) :
                   LockRank(h[2]) < LockRank(LockPlan[g[p].op][g[p].at][2])
    /\ (\E p \in Goroutines : InFlight(p)) =>
           \E p \in Goroutines : InFlight(p) /\ ENABLED LockStep(p)
C36_Witness ==
    \E p, q \in Goroutines :
        /\ LocksHeld(p) = {<<"Lock", "lmu">>}
        /\ LockPlan[g[p].op][g[p].at] = <<"Lock", "tmu">>
        /\ LocksHeld(q) = {<<"Lock", "tmu">>}
        /\ ~ENABLED LockStep(p)

====
